---- MODULE Spec2Model ----
(***************************************************************************)
(* Job orchestration and asset resolution core of FashionAIDashboard.      *)
(*                                                                         *)
(* Strings are sequences of tokens.  A token is a literal piece of text:   *)
(* a separator character ("/", "\\", ".", ":", " ", "\n", ...) or a word   *)
(* made of letters and digits ("output", "png", "Saved", ...).  No word    *)
(* of the alphabets used here is a concatenation of other tokens, so the   *)
(* character-level operations of the source (replace, includes, split,     *)
(* the regular expressions) are computed token by token.                   *)
(*                                                                         *)
(* The specifications share the variables:                                 *)
(*   SpecAsset  one GET request to the asset route                         *)
(*   SpecPath   the path normalizer followed by the resolver's decoding    *)
(*   SpecJob    one request to a job handler and the life of its worker    *)
(*   SpecBust   withCacheBuster called on one URL as the clock advances    *)
(*   SpecRef    a backend path made into a reference, by the handlers'     *)
(*              normalizer and by the page's toAssetsUrl                   *)
(*   SpecWorker one accepted job, its staging files, its argument list     *)
(*              and the pipes of its worker; SpecWorkerFair adds that      *)
(*              the worker ends and its events arrive                      *)
(*   SpecTwo    two requests served at the same time over one filesystem   *)
(***************************************************************************)
EXTENDS Integers, Sequences, FiniteSets, TLC

VARIABLES
    pc,         \* position of the request being served
    req,        \* the request: asset query, job kind and body, or raw path
    fs,         \* the filesystem under (and around) process.cwd()
    resp,       \* the response returned to the caller
    probed,     \* absolute paths handed to existsSync
    readLog,    \* absolute paths handed to readFileSync
    stdout,     \* text accumulated from the worker's stdout
    stderr,     \* text accumulated from the worker's stderr
    spawned,    \* number of spawn() calls made for the request
    staged,     \* staging files written for the request
    ref,        \* the client reference normalizeForBrowser returned
    decoded,    \* the path the asset route decoded from a reference
    proc,       \* the worker: executable, chunks delivered, events, close code
    env,        \* process.platform and process.env.PYTHON_PATH
    clock,      \* Date.now(), of the browser or of the server
    busted,     \* the URLs withCacheBuster returned, in call order
    assetUrl,   \* the URL toAssetsUrl returned to the page
    wire,       \* the worker's pipes: chunks written, chunks in flight, exit
    tasks,      \* the requests the server handles at the same time
    origin      \* for each file written since the start, the request it came from

vars == <<pc, req, fs, resp, probed, readLog, stdout, stderr, spawned, staged,
          ref, decoded, proc, env, clock, busted, assetUrl, wire, tasks, origin>>

----------------------------------------------------------------------------
(* Bounds *)

\* longest `path` query parameter, in tokens
MaxPathLen == 4
\* longest URL handed to withCacheBuster, in tokens
MaxUrlLen == 3
\* latest reading of the browser's clock
MaxClock == 3
\* most chunks a worker emits on stdout
MaxOutChunks == 2
\* most chunks a worker emits on stderr
MaxErrChunks == 1

----------------------------------------------------------------------------
(* Generic sequence helpers *)

RECURSIVE SeqsUpTo(_, _)
SeqsUpTo(S, n) ==
    IF n = 0 THEN {<<>>}
    ELSE LET shorter == SeqsUpTo(S, n - 1)
         IN  shorter \cup {Append(s, x) : s \in {t \in shorter : Len(t) = n - 1}, x \in S}

Drop(s, n) == SubSeq(s, n + 1, Len(s))
Take(s, n) == SubSeq(s, 1, n)

StartsWith(s, prefix) ==
    /\ Len(prefix) <= Len(s)
    /\ Take(s, Len(prefix)) = prefix

MapSeq(s, Op(_)) == [i \in 1..Len(s) |-> Op(s[i])]

----------------------------------------------------------------------------
(* String operations of the source, on token sequences *)

\* s.replace(/\\/g, "/")
BackToSlashTok(t) == IF t = "\\" THEN "/" ELSE t
ReplaceBackslashes(s) == MapSeq(s, BackToSlashTok)

\* s.replace(/^\/+/, "")
RECURSIVE StripLeadingSlashes(_)
StripLeadingSlashes(s) ==
    IF s # <<>> /\ Head(s) = "/" THEN StripLeadingSlashes(Tail(s)) ELSE s

\* s.includes("..")
IncludesDotDot(s) == \E i \in 1..(Len(s) - 1) : s[i] = "." /\ s[i + 1] = "."

\* s.split("/"): the segments between slashes, empty ones included
RECURSIVE SplitSlash(_)
SplitSlash(s) ==
    IF \A i \in 1..Len(s) : s[i] # "/" THEN <<s>>
    ELSE LET k == CHOOSE i \in 1..Len(s) :
                      s[i] = "/" /\ \A j \in 1..(i - 1) : s[j] # "/"
         IN  <<Take(s, k - 1)>> \o SplitSlash(Drop(s, k))

----------------------------------------------------------------------------
(* Filesystem *)

\* process.cwd(), as the list of its segments
Cwd == << <<"app">> >>

Kind(f, abs) == IF abs \in DOMAIN f THEN f[abs] ELSE "none"

\* existsSync(abs)
Exists(f, abs) == Kind(f, abs) # "none"

\* readFileSync(abs) returns: a directory (EISDIR) or an unreadable file
\* (EACCES) makes it throw
Readable(f, abs) == Kind(f, abs) \in {"file", "json", "json_in"}

\* JSON.parse(readFileSync(abs, "utf8")): a file of kind "json" holds the
\* design the worker wrote, one of kind "json_in" the design as submitted
HoldsJson(f, abs) == Kind(f, abs) \in {"json", "json_in"}
\* the parse that hands back the design as it was submitted
ParseFileSubmitted(f, abs) == "design_in"

ParseFile(f, abs) == IF Kind(f, abs) = "json" THEN "design_w" ELSE "design_in"

\* path.resolve(path.join(cwd, rel)): "" and "." segments vanish, ".." pops
RECURSIVE NormalizeSegs(_, _)
NormalizeSegs(acc, segs) ==
    IF segs = <<>> THEN acc
    ELSE LET h == Head(segs)
         IN  IF h = <<>> \/ h = <<".">> THEN NormalizeSegs(acc, Tail(segs))
             ELSE IF h = <<".", ".">>
                  THEN NormalizeSegs(IF acc = <<>> THEN acc ELSE Take(acc, Len(acc) - 1),
                                     Tail(segs))
                  ELSE NormalizeSegs(Append(acc, h), Tail(segs))

ResolveJoin(base, rel) == NormalizeSegs(base, SplitSlash(rel))

\* abs.startsWith(projectRoot + sep) || abs === projectRoot
InsideRoot(abs, root) == StartsWith(abs, root)

\* mime.getType(abs) || 'application/octet-stream'
ContentTypeOf(abs) ==
    LET name == abs[Len(abs)]
    IN  IF name = <<"x.png">> THEN "image/png" ELSE "application/octet-stream"

----------------------------------------------------------------------------
(* Secure Asset Resolver: GET /assets *)

\* The allow-list with the staging directory added to it.
ALLOWED_DIRS_WithTemp == { <<"renders">>, <<"output">>, <<"public">>, <<"temp">> }

ALLOWED_DIRS == { <<"renders">>, <<"output">>, <<"public">> }

NoResp == [status |-> 0, success |-> FALSE, error |-> "", code |-> 0,
           hasCode |-> FALSE, contentType |-> "", body |-> <<>>, url |-> <<>>, hasUrl |-> FALSE,
           raw_stdout |-> <<>>, raw_stderr |-> <<>>, hasRaw |-> FALSE,
           design |-> "", tried |-> <<>>]

\* no interpreter override, POSIX
NoEnv == [platform |-> "linux", PYTHON_PATH |-> <<>>]

\* no URL: the null of toAssetsUrl
NoUrl == [isNull |-> TRUE, value |-> <<>>]

\* a worker that has written nothing and has not exited
NoWire == [out |-> <<>>, err |-> <<>>, sentOut |-> <<>>, sentErr |-> <<>>,
           exited |-> FALSE, code |-> 0]

NoProc == [cmd |-> <<>>, args |-> <<>>, out |-> 0, err |-> 0, errored |-> FALSE, closed |-> FALSE,
           code |-> 0]

JsonError(st, msg) == [NoResp EXCEPT !.status = st, !.error = msg]

\* let requested = rawPath.replace(/\\/g, '/').replace(/^\/+/, '')
Requested(rawPath) == StripLeadingSlashes(ReplaceBackslashes(rawPath))

\* The handler without the traversal check of lines 259-261.
AssetResolveNoTraversalCheck(q, f) ==
    IF ~q.hasPath \/ q.path = <<>>
    THEN [resp |-> JsonError(400, "Missing path param"), probed |-> {}, read |-> {}]
    ELSE
    LET requested == Requested(q.path)
        abs == ResolveJoin(Cwd, requested)
    IN  IF SplitSlash(requested)[1] \notin ALLOWED_DIRS
        THEN [resp |-> JsonError(403, "Folder not allowed"), probed |-> {}, read |-> {}]
        ELSE IF ~InsideRoot(abs, Cwd)
        THEN [resp |-> JsonError(400, "Invalid resolved path"), probed |-> {}, read |-> {}]
        ELSE IF ~Exists(f, abs)
        THEN [resp |-> JsonError(404, "File not found"), probed |-> {abs}, read |-> {}]
        ELSE IF ~Readable(f, abs)
        THEN [resp |-> JsonError(500, "read error"), probed |-> {abs}, read |-> {abs}]
        ELSE [resp |-> [NoResp EXCEPT !.status = 200, !.success = TRUE,
                                      !.contentType = ContentTypeOf(abs),
                                      !.body = abs],
              probed |-> {abs}, read |-> {abs}]

\* The handler with the existence test placed before the allow-list test.
AssetResolveExistsFirst(q, f) ==
    IF ~q.hasPath \/ q.path = <<>>
    THEN [resp |-> JsonError(400, "Missing path param"), probed |-> {}, read |-> {}]
    ELSE
    LET requested == Requested(q.path)
        abs == ResolveJoin(Cwd, requested)
    IN  IF IncludesDotDot(requested)
        THEN [resp |-> JsonError(400, "Invalid path"), probed |-> {}, read |-> {}]
        ELSE IF ~Exists(f, abs)
        THEN [resp |-> JsonError(404, "File not found"), probed |-> {abs}, read |-> {}]
        ELSE AssetResolveNoTraversalCheck(q, f)

\* GET(req): the whole handler.  The result carries the response and the
\* paths the handler tested for existence and read.
AssetResolve(q, f) ==
    IF ~q.hasPath \/ q.path = <<>>
    THEN [resp |-> JsonError(400, "Missing path param"), probed |-> {}, read |-> {}]
    ELSE
    LET requested == Requested(q.path)
        firstSegment == SplitSlash(requested)[1]
        abs == ResolveJoin(Cwd, requested)
    IN  IF IncludesDotDot(requested)
        THEN [resp |-> JsonError(400, "Invalid path"), probed |-> {}, read |-> {}]
        ELSE IF firstSegment \notin ALLOWED_DIRS
        THEN [resp |-> JsonError(403, "Folder not allowed"), probed |-> {}, read |-> {}]
        ELSE IF ~InsideRoot(abs, Cwd)
        THEN [resp |-> JsonError(400, "Invalid resolved path"), probed |-> {}, read |-> {}]
        ELSE IF ~Exists(f, abs)
        THEN [resp |-> JsonError(404, "File not found"), probed |-> {abs}, read |-> {}]
        \* readFileSync throws on a directory (EISDIR) and on an unreadable
        \* file (EACCES); the catch of line 292 answers 500
        ELSE IF ~Readable(f, abs)
        THEN [resp |-> JsonError(500, "read error"), probed |-> {abs}, read |-> {abs}]
        ELSE [resp |-> [NoResp EXCEPT !.status = 200, !.success = TRUE,
                                      !.contentType = ContentTypeOf(abs),
                                      !.body = abs],
              probed |-> {abs}, read |-> {abs}]

\* tokens of the `path` parameter
PathAlphabet == {"/", "\\", ".", "output", "temp", "x.png"}

AssetQueries ==
    {[hasPath |-> FALSE, path |-> <<>>]}
        \cup {[hasPath |-> TRUE, path |-> p] : p \in SeqsUpTo(PathAlphabet, MaxPathLen)}

OutputDir == Cwd \o << <<"output">> >>
OutputFile == OutputDir \o << <<"x.png">> >>
TempFile == Cwd \o << <<"temp">>, <<"x.png">> >>
CwdFile == Cwd \o << <<"x.png">> >>
OutsideFile == << <<"x.png">> >>

\* the filesystems a request may find
AssetFilesystems ==
    {  (Cwd :> "dir"),
       (Cwd :> "dir") @@ (OutputDir :> "dir") @@ (CwdFile :> "file")
                      @@ (OutsideFile :> "file"),
       (Cwd :> "dir") @@ (OutputDir :> "dir") @@ (OutputFile :> "file")
                      @@ (TempFile :> "file") @@ (CwdFile :> "file")
                      @@ (OutsideFile :> "file"),
       (Cwd :> "dir") @@ (OutputDir :> "dir") @@ (OutputFile :> "noperm"),
       (Cwd :> "dir") @@ (OutputDir :> "dir") @@ (OutputFile :> "dir") }

InitAsset ==
    /\ pc = "asset_received"
    /\ req \in AssetQueries
    /\ fs \in AssetFilesystems
    /\ resp = NoResp
    /\ probed = {}
    /\ readLog = {}
    /\ stdout = <<>>
    /\ stderr = <<>>
    /\ spawned = 0
    /\ staged = {}
    /\ ref = <<>>
    /\ decoded = <<>>
    /\ proc = NoProc
    /\ env = NoEnv
    /\ clock = 0
    /\ busted = <<>>
    /\ assetUrl = NoUrl
    /\ wire = NoWire
    /\ tasks = <<>>
    /\ origin = <<>>

AssetGET ==
    /\ pc = "asset_received"
    /\ LET r == AssetResolve(req, fs)
       IN  /\ resp' = r.resp
           /\ probed' = r.probed
           /\ readLog' = r.read
    /\ pc' = "asset_done"
    /\ UNCHANGED <<req, fs, stdout, stderr, spawned, staged, ref, decoded, proc,
                   env, clock, busted,
                   assetUrl, wire, tasks, origin>>

NextAsset == AssetGET

SpecAsset == InitAsset /\ [][NextAsset]_vars

----------------------------------------------------------------------------
(* Path Normalizer and the decoding of a client reference *)

\* the single letters of the alphabets: what [A-Za-z] matches
Letters == {"C", "x"}

\* s.replace(/^[A-Za-z]:/, "")
HasDrivePrefix(s) == Len(s) >= 2 /\ s[1] \in Letters /\ s[2] = ":"
StripDrive(s) == IF HasDrivePrefix(s) THEN Drop(s, 2) ELSE s

\* encodeURI: reserved characters ; / ? : @ & = + $ , # are left as they are
EncodeURITok(t) ==
    CASE t = "\\" -> "%5C"
      [] t = " "  -> "%20"
      [] t = "%"  -> "%25"
      [] OTHER    -> t

\* encodeURIComponent: everything but A-Z a-z 0-9 - _ . ! ~ * ' ( ) is escaped
EncodeTok(t) ==
    CASE t = "/"  -> "%2F"
      [] t = "\\" -> "%5C"
      [] t = ":"  -> "%3A"
      [] t = "+"  -> "%2B"
      [] t = "&"  -> "%26"
      [] t = "="  -> "%3D"
      [] t = "?"  -> "%3F"
      [] t = "#"  -> "%23"
      [] t = " "  -> "%20"
      [] t = "%"  -> "%25"
      [] OTHER    -> t

encodeURIComponent(s) == MapSeq(s, EncodeTok)

\* normalizeForBrowser(p)
normalizeForBrowser(p) ==
    LET s == StripLeadingSlashes(StripDrive(ReplaceBackslashes(p)))
    IN  <<"/api/assets", "?", "path", "=">> \o encodeURIComponent(s)

\* application/x-www-form-urlencoded decoding of one token
DecodeTok(t) ==
    CASE t = "+"   -> " "
      [] t = "%2F" -> "/"
      [] t = "%5C" -> "\\"
      [] t = "%3A" -> ":"
      [] t = "%2B" -> "+"
      [] t = "%26" -> "&"
      [] t = "%3D" -> "="
      [] t = "%3F" -> "?"
      [] t = "%23" -> "#"
      [] t = "%20" -> " "
      [] t = "%25" -> "%"
      [] OTHER     -> t

\* s up to, and without, the first token in stops
RECURSIVE UpTo(_, _)
UpTo(s, stops) ==
    IF s = <<>> \/ Head(s) \in stops THEN <<>> ELSE <<Head(s)>> \o UpTo(Tail(s), stops)

\* s after the first token in stops; <<>> when there is none
RECURSIVE After(_, _)
After(s, stops) ==
    IF s = <<>> THEN <<>>
    ELSE IF Head(s) \in stops THEN Tail(s) ELSE After(Tail(s), stops)

\* the value of the first `path` pair of a query string
RECURSIVE QueryPathValue(_)
QueryPathValue(query) ==
    IF query = <<>> THEN [found |-> FALSE, value |-> <<>>]
    ELSE LET pair == UpTo(query, {"&"})
             name == MapSeq(UpTo(pair, {"="}), DecodeTok)
         IN  IF name = <<"path">>
             THEN [found |-> TRUE, value |-> MapSeq(After(pair, {"="}), DecodeTok)]
             ELSE QueryPathValue(After(query, {"&"}))

\* new URL(req.url).searchParams.get('path')
SearchParamPath(url) == QueryPathValue(UpTo(After(url, {"?"}), {"#"}))

\* tokens of the raw paths handed to the normalizer
RawAlphabet == {"/", "\\", ".", ":", "C", "output", "+", "&"}

InitPath ==
    /\ pc = "path_input"
    /\ req \in {[hasPath |-> TRUE, path |-> p] : p \in SeqsUpTo(RawAlphabet, MaxPathLen)}
    /\ fs = (Cwd :> "dir")
    /\ resp = NoResp
    /\ probed = {}
    /\ readLog = {}
    /\ stdout = <<>>
    /\ stderr = <<>>
    /\ spawned = 0
    /\ staged = {}
    /\ ref = <<>>
    /\ decoded = <<>>
    /\ proc = NoProc
    /\ env = NoEnv
    /\ clock = 0
    /\ busted = <<>>
    /\ assetUrl = NoUrl
    /\ wire = NoWire
    /\ tasks = <<>>
    /\ origin = <<>>

\* a job handler turns the path into a client reference
ToClientReference ==
    /\ pc = "path_input"
    /\ ref' = normalizeForBrowser(req.path)
    /\ pc' = "path_ref"
    /\ UNCHANGED <<req, fs, resp, probed, readLog, stdout, stderr, spawned, staged,
                   decoded, proc,
                   env, clock, busted,
                   assetUrl, wire, tasks, origin>>

\* the asset route reads the reference back: lines 249-256
DecodeReference ==
    /\ pc = "path_ref"
    /\ decoded' = Requested(SearchParamPath(ref).value)
    /\ pc' = "path_decoded"
    /\ UNCHANGED <<req, fs, resp, probed, readLog, stdout, stderr, spawned, staged, ref,
                   proc,
                   env, clock, busted,
                   assetUrl, wire, tasks, origin>>

NextPath == ToClientReference \/ DecodeReference

SpecPath == InitPath /\ [][NextPath]_vars

----------------------------------------------------------------------------
(* Text of the worker's output *)

IsNewline(t) == t = "\n"
IsSpace(t) == t \in {" ", "\t", "\n"}
IsQuote(t) == t \in {"'", "\""}

\* s.trim()
RECURSIVE TrimLeft(_)
TrimLeft(s) == IF s # <<>> /\ IsSpace(Head(s)) THEN TrimLeft(Tail(s)) ELSE s

RECURSIVE TrimRight(_)
TrimRight(s) ==
    IF s # <<>> /\ IsSpace(s[Len(s)]) THEN TrimRight(Take(s, Len(s) - 1)) ELSE s

Trim(s) == TrimRight(TrimLeft(s))

\* a chunk of PadWidth (BigPadWidth) characters of log text without
\* separators, as one token
PadWidth == 2000
BigPadWidth == 8001

\* number of characters of a token
Width(t) ==
    CASE t = "PAD" -> PadWidth
      [] t = "BIGPAD" -> BigPadWidth
      [] t \in {"Saved", "Wrote", "video", "image"} -> 5
      [] t \in {"output", "design"} -> 6
      [] t = "showcase" -> 8
      [] t = "_showcase" -> 9
      [] t = "_flatlay" -> 8
      [] t = "_runway" -> 7
      [] t \in {"temp", "json", "jpeg", "note"} -> 4
      [] t \in {"png", "jpg", "mp4", "log", "err", "out"} -> 3
      [] t = "d1" -> 2
      [] t = "{design_w}" -> 10
      [] OTHER -> 1

RECURSIVE TextWidth(_)
TextWidth(s) == IF s = <<>> THEN 0 ELSE Width(Head(s)) + TextWidth(Tail(s))

\* s.slice(0, n): the first n characters.  A token the cut falls inside is
\* left as the token "<cut>", a proper prefix of it.
RECURSIVE Slice(_, _)
Slice(s, n) ==
    IF s = <<>> \/ n <= 0 THEN <<>>
    ELSE IF Width(Head(s)) <= n
         THEN <<Head(s)>> \o Slice(Tail(s), n - Width(Head(s)))
         ELSE <<"<cut>">>

Min(S) == CHOOSE x \in S : \A y \in S : x <= y
Max(S) == CHOOSE x \in S : \A y \in S : x >= y

NoMatch == [found |-> FALSE, cap |-> <<>>]

\* last position of the run of tokens starting at k that satisfy neither
\* IsSpace nor IsQuote; k - 1 when the run is empty
RunEnd(text, k) ==
    LET stops == {e \in k..Len(text) : IsSpace(text[e]) \/ IsQuote(text[e])}
    IN  IF stops = {} THEN Len(text) ELSE Min(stops) - 1

\* last position of the line that position k is in
LineEnd(text, k) ==
    LET stops == {e \in k..Len(text) : IsNewline(text[e])}
    IN  IF stops = {} THEN Len(text) ELSE Min(stops) - 1

\* first position at or after k that is not white space; Len(text) + 1 if none
SkipSpace(text, k) ==
    LET rest == {e \in k..Len(text) : ~IsSpace(text[e])}
    IN  IF rest = {} THEN Len(text) + 1 ELSE Min(rest)

\* /Saved<label>:\s*(<head>[^\s'"]+\.(?:<exts>))/ tried at position i
MatchSavedAt(text, i, label, head, exts) ==
    LET intro == <<"Saved">> \o label \o <<":">>
        k == SkipSpace(text, i + Len(intro))
        r == k + Len(head)
        e == RunEnd(text, r)
        dots == {j \in (r + 1)..(e - 1) : text[j] = "." /\ text[j + 1] \in exts}
    IN  IF /\ StartsWith(Drop(text, i - 1), intro)
           /\ StartsWith(Drop(text, k - 1), head)
           /\ dots # {}
        THEN [found |-> TRUE, cap |-> SubSeq(text, k, Max(dots) + 1)]
        ELSE NoMatch

\* text.match(re) for a pattern of that shape whose label is one of labels:
\* the leftmost match
MatchSaved(text, labels, head, exts) ==
    LET hits == {i \in 1..Len(text) :
                    \E l \in labels : MatchSavedAt(text, i, l, head, exts).found}
    IN  IF hits = {} THEN NoMatch
        ELSE LET i == Min(hits)
                 l == CHOOSE l \in labels : MatchSavedAt(text, i, l, head, exts).found
             IN  MatchSavedAt(text, i, l, head, exts)

ImageExts == {"png", "jpg", "jpeg"}
VideoExts == {"mp4"}

\* /Saved:? (.+\.(?:png|jpg|jpeg))/i tried at position i
MatchFlatlayAt(text, i) ==
    LET a == IF i + 1 <= Len(text) /\ text[i + 1] = ":" THEN i + 2 ELSE i + 1
        k == a + 1
        e == LineEnd(text, k)
        dots == {j \in (k + 1)..(e - 1) : text[j] = "." /\ text[j + 1] \in ImageExts}
    IN  IF /\ text[i] = "Saved"
           /\ a <= Len(text)
           /\ text[a] = " "
           /\ dots # {}
        THEN [found |-> TRUE, cap |-> SubSeq(text, k, Max(dots) + 1)]
        ELSE NoMatch

\* combined.match(/Saved:? (.+\.(?:png|jpg|jpeg))/i)
MatchFlatlay(text) ==
    LET hits == {i \in 1..Len(text) : MatchFlatlayAt(text, i).found}
    IN  IF hits = {} THEN NoMatch ELSE MatchFlatlayAt(text, Min(hits))

\* the three patterns of the virtual-showcase close handler, in order
MatchShowcase(text) ==
    LET m1 == MatchSaved(text, {<<" ", "showcase", " ", "image">>, <<>>}, <<>>, ImageExts)
        m2 == MatchSaved(text, {<<>>}, <<"renders", "/">>, ImageExts)
        m3 == MatchSaved(text, {<<>>}, <<"output", "/">>, ImageExts)
    IN  IF m1.found THEN m1 ELSE IF m2.found THEN m2 ELSE m3

\* the three patterns of the runway close handler, in order
MatchRunway(text) ==
    LET m1 == MatchSaved(text, {<<" ", "video">>}, <<>>, VideoExts)
        m2 == MatchSaved(text, {<<>>}, <<"output", "/">>, VideoExts)
        m3 == MatchSaved(text, {<<>>}, <<"renders", "/">>, VideoExts)
    IN  IF m1.found THEN m1 ELSE IF m2.found THEN m2 ELSE m3

\* stdout.match(/Wrote:\s*(.+)/): \s* gives characters back until the
\* capture can start on a character that is not a line terminator
MatchWroteAt(text, i) ==
    LET k == SkipSpace(text, i + 2)
        starts == {q \in (i + 2)..k : q <= Len(text) /\ ~IsNewline(text[q])}
    IN  IF /\ StartsWith(Drop(text, i - 1), <<"Wrote", ":">>)
           /\ starts # {}
        THEN [found |-> TRUE, cap |-> SubSeq(text, Max(starts), LineEnd(text, Max(starts)))]
        ELSE NoMatch

MatchWrote(text) ==
    LET hits == {i \in 1..Len(text) : MatchWroteAt(text, i).found}
    IN  IF hits = {} THEN NoMatch ELSE MatchWroteAt(text, Min(hits))

\* s.replace(/^["']|["']$/g, "")
StripQuotes(s) ==
    LET a == IF s # <<>> /\ IsQuote(Head(s)) THEN Tail(s) ELSE s
    IN  IF a # <<>> /\ IsQuote(a[Len(a)]) THEN Take(a, Len(a) - 1) ELSE a

----------------------------------------------------------------------------
(* Job Request Handlers *)

JobKinds == {"flatlay", "showcase", "runway", "apply"}

\* request.json(): a body that is not JSON, JSON null, or a JSON object
NoBody(form) == [form |-> form, hasDesign |-> FALSE, design_id |-> <<>>,
                 textChange |-> FALSE]

ObjectBodies(textChanges) ==
    {[form |-> "object", hasDesign |-> d[1], design_id |-> d[2], textChange |-> t] :
        d \in {<<FALSE, <<>>>>, <<TRUE, <<>>>>, <<TRUE, <<"d1">>>>},
        t \in textChanges}

\* body.reference and the headers the reference URL is built from: no
\* reference, an absolute one, or a relative one together with the Referer
\* header of the request (no x-forwarded-proto header is sent)
References ==
    { [reference |-> "none", referer |-> "none"],
      [reference |-> "absolute", referer |-> "none"],
      [reference |-> "relative", referer |-> "valid"],
      [reference |-> "relative", referer |-> "invalid"] }

NoReference == [reference |-> "none", referer |-> "none"]

JobRequests ==
    {[kind |-> k, body |-> b, link |-> NoReference, modelConfig |-> "none"] :
        k \in JobKinds \ {"apply"},
        b \in {NoBody("malformed"), NoBody("null")} \cup ObjectBodies({FALSE})}
    \cup
    {[kind |-> k, body |-> b, link |-> r, modelConfig |-> "none"] :
        k \in {"showcase", "runway"},
        b \in {x \in ObjectBodies({FALSE}) : x.design_id # <<>>},
        r \in References}
    \cup
    {[kind |-> "apply", body |-> b, link |-> NoReference, modelConfig |-> "none"] :
        b \in {NoBody("malformed"), NoBody("null")} \cup ObjectBodies({FALSE, TRUE})}

\* the reference URL of virtual-showcase (lines 47-64) and runway (lines
\* 42-54): new URL(reference) throws for a relative reference, and then
\* new URL(referer) throws a TypeError when the Referer header is no URL
ReferenceThrows(q) == q.link.reference = "relative" /\ q.link.referer = "invalid"

\* flatlay-render, lines 170-174: 0 when the request passes, else the status
FlatlayValidate(b) ==
    IF b.form = "malformed" THEN 500        \* request.json() rejects
    ELSE IF b.form = "null" THEN 500        \* body.design throws a TypeError
    ELSE IF ~b.hasDesign THEN 400
    ELSE 0

\* virtual-showcase lines 35-40, runway lines 34-39
RenderValidate(b) ==
    IF b.form = "malformed" THEN 500
    ELSE IF b.form = "null" THEN 400        \* body ?? {} has no design
    ELSE IF ~b.hasDesign \/ b.design_id = <<>> THEN 400
    ELSE 0

\* apply-change, lines 20-25
ApplyValidate(b) ==
    IF b.form = "malformed" THEN 500
    ELSE IF b.form = "null" THEN 500        \* destructuring null throws
    ELSE IF ~b.hasDesign \/ ~b.textChange THEN 400
    ELSE 0

\* runway builds the reference URL right after the validation, before
\* anything is staged (lines 41-54)
RunwayValidate(q) ==
    IF RenderValidate(q.body) # 0 THEN RenderValidate(q.body)
    ELSE IF ReferenceThrows(q) THEN 500
    ELSE 0

\* the synchronous part of POST up to the first staging call
Validate(q) ==
    CASE q.kind = "flatlay" -> FlatlayValidate(q.body)
      [] q.kind = "apply" -> ApplyValidate(q.body)
      [] q.kind = "runway" -> RunwayValidate(q)
      [] OTHER -> RenderValidate(q.body)

ValidationMessage(q, st) ==
    IF st = 500 THEN "request error"
    ELSE CASE q.kind = "flatlay" -> "missing design"
           [] q.kind = "apply" -> "Missing design or textChange"
           [] OTHER -> "missing design or design.design_id"

\* path.join(...) of a relative path: "" and "." segments vanish, ".."
\* removes the segment before it, or stays when there is none to remove
RECURSIVE NormalizeRel(_, _)
NormalizeRel(acc, segs) ==
    IF segs = <<>> THEN acc
    ELSE LET h == Head(segs)
         IN  IF h = <<>> \/ h = <<".">> THEN NormalizeRel(acc, Tail(segs))
             ELSE IF h = <<".", ".">> /\ acc # <<>> /\ acc[Len(acc)] # <<".", ".">>
                  THEN NormalizeRel(Take(acc, Len(acc) - 1), Tail(segs))
                  ELSE NormalizeRel(Append(acc, h), Tail(segs))

RECURSIVE JoinSlash(_)
JoinSlash(segs) ==
    IF segs = <<>> THEN <<>>
    ELSE IF Len(segs) = 1 THEN Head(segs)
    ELSE Head(segs) \o <<"/">> \o JoinSlash(Tail(segs))

\* getPythonExecutable() of virtual-showcase and runway
VenvWin == Cwd \o << <<"scripts">>, <<"venv">>, <<"Scripts">>, <<"python", ".", "exe">> >>
VenvPosix == Cwd \o << <<"scripts">>, <<"venv">>, <<"bin">>, <<"python">> >>

PlatformDefault(e) == IF e.platform = "win32" THEN <<"py">> ELSE <<"python3">>

RenderPython(f, e) ==
    IF Exists(f, VenvWin) THEN JoinSlash(VenvWin)
    ELSE IF Exists(f, VenvPosix) THEN JoinSlash(VenvPosix)
    ELSE IF e.PYTHON_PATH # <<>> THEN e.PYTHON_PATH
    ELSE PlatformDefault(e)

\* getPythonExecutable() of apply-change: no override is consulted
ApplyPython(f, e) ==
    IF Exists(f, VenvWin) THEN JoinSlash(VenvWin)
    ELSE IF Exists(f, VenvPosix) THEN JoinSlash(VenvPosix)
    ELSE PlatformDefault(e)

\* getPythonExecutable() of flatlay-render: no virtual environment is
\* looked for
FlatlayPython(f, e) ==
    IF e.PYTHON_PATH # <<>> THEN e.PYTHON_PATH ELSE PlatformDefault(e)

getPythonExecutable(q, f, e) ==
    CASE q.kind = "flatlay" -> FlatlayPython(f, e)
      [] q.kind = "apply" -> ApplyPython(f, e)
      [] OTHER -> RenderPython(f, e)

\* Date.now() at the time the request is staged
Now == "T1"

TempDir == Cwd \o << <<"temp">> >>

\* join(process.cwd(), "temp", name)
TempPath(name) == ResolveJoin(Cwd, <<"temp", "/">> \o name)

\* designPath: named by the clock in apply-change and flatlay-render, by
\* the design id in virtual-showcase and runway
DesignPathAt(q, now) ==
    IF q.kind \in {"apply", "flatlay"}
    THEN TempPath(<<"design_", now, ".", "json">>)
    ELSE TempPath(q.body.design_id \o <<".", "design", ".", "json">>)

\* changePath of apply-change
ChangePathAt(now) == TempPath(<<"change_", now, ".", "txt">>)

\* the staging files each handler writes when the clock reads now
StagingFilesAt(q, now) ==
    IF q.kind = "apply" THEN {DesignPathAt(q, now), ChangePathAt(now)}
    ELSE {DesignPathAt(q, now)}

StagingFiles(q) == StagingFilesAt(q, Now)

\* the script each handler runs
ScriptOf(kind) ==
    CASE kind = "showcase" -> <<"scripts", "/", "agent3_virtual_showcase_demo", ".", "py">>
      [] kind = "runway" -> <<"scripts", "/", "agent3_runway_demo", ".", "py">>
      [] kind = "flatlay" ->
             JoinSlash(Cwd \o << <<"scripts">>, <<"render_utils", ".", "py">> >>)
      [] OTHER ->
             JoinSlash(Cwd \o << <<"scripts">>, <<"apply_text_change", ".", "py">> >>)

\* referenceUrl: the reference itself when new URL(reference) accepts it,
\* else `${proto}://${host}${refPath}` built from the request's headers
ReferenceUrl(q) ==
    CASE q.link.reference = "absolute" -> <<"https", ":", "/", "/", "cdn", "/", "ref">>
      [] q.link.reference = "relative" -> <<"http", ":", "/", "/", "host", "/", "ref">>
      [] OTHER -> <<>>

\* an argument list that names the reference flag whether or not there
\* is a reference
WorkerArgsReferenceAlways(q, now) ==
    CASE q.kind = "flatlay" ->
             << ScriptOf(q.kind), <<"--input">>, JoinSlash(DesignPathAt(q, now)),
                <<"--variant">>, <<"flatlay">> >>
      [] q.kind = "apply" ->
             << ScriptOf(q.kind), JoinSlash(DesignPathAt(q, now)),
                JoinSlash(ChangePathAt(now)) >>
      [] OTHER ->
             << ScriptOf(q.kind), <<"--design">>, JoinSlash(DesignPathAt(q, now)),
                <<"--out-dir">>, <<"output">> >>
             \o (IF q.modelConfig = "full"
                 THEN << <<"--model-attrs">>, <<"{model}">> >> ELSE <<>>)
             \o << <<"--reference">>, ReferenceUrl(q) >>

\* the argument list handed to spawn, each argument a text
WorkerArgs(q, now) ==
    CASE q.kind = "flatlay" ->
             << ScriptOf(q.kind), <<"--input">>, JoinSlash(DesignPathAt(q, now)),
                <<"--variant">>, <<"flatlay">> >>
      [] q.kind = "apply" ->
             << ScriptOf(q.kind), JoinSlash(DesignPathAt(q, now)),
                JoinSlash(ChangePathAt(now)) >>
      [] OTHER ->
             << ScriptOf(q.kind), <<"--design">>, JoinSlash(DesignPathAt(q, now)),
                <<"--out-dir">>, <<"output">> >>
             \o (IF q.modelConfig = "full"
                 THEN << <<"--model-attrs">>, <<"{model}">> >> ELSE <<>>)
             \o (IF ReferenceUrl(q) # <<>>
                 THEN << <<"--reference">>, ReferenceUrl(q) >> ELSE <<>>)

\* join("output", `${design_id}_${suffix}.${ext}`)
FallbackPath(design_id, suffix, ext) ==
    LET segs == NormalizeRel(<<>>, SplitSlash(<<"output", "/">> \o design_id
                                                  \o <<suffix, ".", ext>>))
    IN  IF segs = <<>> THEN <<".">> ELSE JoinSlash(segs)

RawFull(r, out, err) ==
    [r EXCEPT !.raw_stdout = out, !.raw_stderr = err, !.hasRaw = TRUE]

Success(field) == [NoResp EXCEPT !.status = 200, !.success = TRUE,
                                 !.url = field, !.hasUrl = TRUE]

\* the failure answer without the captured output
ScriptFailedNoRaw(c, out, err) ==
    [JsonError(500, "Script failed (code N)") EXCEPT !.code = c, !.hasCode = TRUE]

ScriptFailed(c, out, err) ==
    RawFull([JsonError(500, "Script failed (code N)") EXCEPT !.code = c, !.hasCode = TRUE],
            out, err)

\* flatlay-render close handler, lines 200-227
FlatlayClose(c, out, err) ==
    LET combined == out \o <<"\n">> \o err
        match == MatchFlatlay(combined)
    IN  IF c = 0 /\ match.found
        THEN Success(normalizeForBrowser(Trim(match.cap)))
        ELSE IF c = 0
        THEN RawFull(JsonError(500, "Could not parse script output"), out, err)
        ELSE ScriptFailed(c, out, err)

\* that close handler with the conventional file looked for first
RenderCloseFallbackFirst(c, out, err, f, m, fallback) ==
    IF c = 0
    THEN IF Exists(f, ResolveJoin(Cwd, fallback))
         THEN Success(normalizeForBrowser(fallback))
         ELSE IF m.found
         THEN Success(normalizeForBrowser(Trim(m.cap)))
         ELSE RawFull([NoResp EXCEPT !.status = 200, !.success = TRUE], out, err)
    ELSE ScriptFailed(c, out, err)

\* the close handler of virtual-showcase and runway: lines 103-128 and 87-109
RenderClose(c, out, err, f, m, fallback) ==
    IF c = 0
    THEN IF m.found
         THEN Success(normalizeForBrowser(Trim(m.cap)))
         ELSE IF Exists(f, ResolveJoin(Cwd, fallback))
         THEN Success(normalizeForBrowser(fallback))
         \* "If no file found, still return success + raw logs"
         ELSE RawFull([NoResp EXCEPT !.status = 200, !.success = TRUE], out, err)
    ELSE ScriptFailed(c, out, err)

ShowcaseClose(c, out, err, f, id) ==
    RenderClose(c, out, err, f, MatchShowcase(out \o <<"\n">> \o err),
                FallbackPath(id, "_showcase", "png"))

RunwayClose(c, out, err, f, id) ==
    RenderClose(c, out, err, f, MatchRunway(out \o <<"\n">> \o err),
                FallbackPath(id, "_runway", "mp4"))

\* stdout.slice(0, 2000) and stderr.slice(0, 8000)
StdoutSlice == 2000
StderrSlice == 8000

RawSliced(r, out, err) ==
    [r EXCEPT !.raw_stdout = Slice(out, StdoutSlice),
              !.raw_stderr = Slice(err, StderrSlice), !.hasRaw = TRUE]

\* path.isAbsolute(p), POSIX
IsAbsolute(p) == p # <<>> /\ Head(p) = "/"

\* candidatePaths, lines 75-81
CandidatePaths(modifiedPath) ==
    (IF IsAbsolute(modifiedPath) THEN <<ResolveJoin(<<>>, modifiedPath)>> ELSE <<>>)
    \o << ResolveJoin(Cwd, modifiedPath),
          ResolveJoin(Cwd \o << <<"scripts">> >>, modifiedPath),
          ResolveJoin(Cwd \o << <<"temp">> >>, modifiedPath),
          ResolveJoin(Cwd \o << <<"output">> >>, modifiedPath),
          ResolveJoin(Cwd, ReplaceBackslashes(modifiedPath)) >>

\* a JSON document whose text mentions a written path:
\* {"note":"Wrote: temp/out.json"}
JsonNote == <<"{", "\"", "note", "\"", ":", "\"", "Wrote", ":", " ",
              "temp", "/", "out", ".", "json", "\"", "}">>

\* JSON.parse(text): the documents of the model are the design the worker
\* prints as one token and the note above
IsJsonText(text) == Trim(text) \in { <<"{design_w}">>, JsonNote }
ParseJson(text) == IF Trim(text) = JsonNote THEN "note" ELSE "design_w"

\* that close handler falling back to stdout when the written file is missing
ApplyCloseStdoutFallback(c, out, err, f) ==
    IF c # 0
    THEN RawSliced([JsonError(500, "Python script exited with code N")
                       EXCEPT !.code = c, !.hasCode = TRUE], out, err)
    ELSE
    LET wroteMatch == MatchWrote(out)
        modifiedPath == StripQuotes(Trim(wroteMatch.cap))
        candidatePaths == CandidatePaths(modifiedPath)
        existing == {i \in 1..Len(candidatePaths) : Exists(f, candidatePaths[i])}
    IN  IF wroteMatch.found
        THEN IF existing = {} /\ IsJsonText(out)
             THEN [NoResp EXCEPT !.status = 200, !.success = TRUE, !.design = ParseJson(out)]
             ELSE IF existing = {}
             THEN RawSliced([JsonError(500, "Python reported Wrote: path but file not found")
                                EXCEPT !.tried = candidatePaths], out, err)
             ELSE IF HoldsJson(f, candidatePaths[Min(existing)])
             THEN [NoResp EXCEPT !.status = 200, !.success = TRUE,
                                 !.design = ParseFile(f, candidatePaths[Min(existing)])]
             ELSE RawSliced(JsonError(500, "Failed to read/parse updated design file"),
                            out, err)
        ELSE IF IsJsonText(out)
        THEN [NoResp EXCEPT !.status = 200, !.success = TRUE, !.design = ParseJson(out)]
        ELSE RawSliced(JsonError(500, "Could not find written file path and stdout was not parseable JSON"),
                       out, err)

\* that close handler without the test of the exit code
ApplyCloseAnyExit(c, out, err, f) ==
    IF FALSE
    THEN RawSliced([JsonError(500, "Python script exited with code N")
                       EXCEPT !.code = c, !.hasCode = TRUE], out, err)
    ELSE
    LET wroteMatch == MatchWrote(out)
        modifiedPath == StripQuotes(Trim(wroteMatch.cap))
        candidatePaths == CandidatePaths(modifiedPath)
        existing == {i \in 1..Len(candidatePaths) : Exists(f, candidatePaths[i])}
    IN  IF wroteMatch.found
        THEN IF existing = {}
             THEN RawSliced([JsonError(500, "Python reported Wrote: path but file not found")
                                EXCEPT !.tried = candidatePaths], out, err)
             ELSE IF HoldsJson(f, candidatePaths[Min(existing)])
             THEN [NoResp EXCEPT !.status = 200, !.success = TRUE,
                                 !.design = ParseFile(f, candidatePaths[Min(existing)])]
             ELSE RawSliced(JsonError(500, "Failed to read/parse updated design file"),
                            out, err)
        ELSE IF IsJsonText(out)
        THEN [NoResp EXCEPT !.status = 200, !.success = TRUE, !.design = ParseJson(out)]
        ELSE RawSliced(JsonError(500, "Could not find written file path and stdout was not parseable JSON"),
                       out, err)

\* apply-change close handler, lines 60-130
ApplyClose(c, out, err, f) ==
    IF c # 0
    THEN RawSliced([JsonError(500, "Python script exited with code N")
                       EXCEPT !.code = c, !.hasCode = TRUE], out, err)
    ELSE
    LET wroteMatch == MatchWrote(out)
        modifiedPath == StripQuotes(Trim(wroteMatch.cap))
        candidatePaths == CandidatePaths(modifiedPath)
        existing == {i \in 1..Len(candidatePaths) : Exists(f, candidatePaths[i])}
    IN  IF wroteMatch.found
        THEN IF existing = {}
             THEN RawSliced([JsonError(500, "Python reported Wrote: path but file not found")
                                EXCEPT !.tried = candidatePaths], out, err)
             ELSE IF HoldsJson(f, candidatePaths[Min(existing)])
             THEN [NoResp EXCEPT !.status = 200, !.success = TRUE,
                                 !.design = ParseFile(f, candidatePaths[Min(existing)])]
             ELSE RawSliced(JsonError(500, "Failed to read/parse updated design file"),
                            out, err)
        ELSE IF IsJsonText(out)
        THEN [NoResp EXCEPT !.status = 200, !.success = TRUE, !.design = ParseJson(out)]
        ELSE RawSliced(JsonError(500, "Could not find written file path and stdout was not parseable JSON"),
                       out, err)

\* a close handler that settles the promise with no answer
CloseResponseSilent(q, c, out, err, f) == NoResp

\* what the close event answers
CloseResponse(q, c, out, err, f) ==
    CASE q.kind = "flatlay" -> FlatlayClose(c, out, err)
      [] q.kind = "showcase" -> ShowcaseClose(c, out, err, f, q.body.design_id)
      [] q.kind = "runway" -> RunwayClose(c, out, err, f, q.body.design_id)
      [] OTHER -> ApplyClose(c, out, err, f)

\* what the error event answers
ErrorResponse(q) ==
    IF q.kind = "apply" THEN JsonError(500, "Failed to spawn python")
    ELSE JsonError(500, "spawn error")

----------------------------------------------------------------------------
(* Worker output and the filesystems of a job *)

Line(text) == text \o <<"\n">>
SavedLine(path) == Line(<<"Saved", ":", " ">> \o path)

PathOutputPng == <<"output", "/", "x", ".", "png">>
PathSpacePng == <<"x", " ", "x", ".", "png">>
PathOutputMp4 == <<"output", "/", "x", ".", "mp4">>
PathOtherMp4 == <<"x", "/", "x", ".", "mp4">>

OutChunks(kind) ==
    CASE kind = "flatlay" ->
             { Line(<<"log">>), <<"PAD">>, SavedLine(PathOutputPng), SavedLine(PathSpacePng) }
      [] kind = "showcase" ->
             { Line(<<"log">>), <<"PAD">>, SavedLine(PathOutputPng), SavedLine(PathSpacePng),
               Line(<<"Saved", " ", "showcase", " ", "image", ":", " ">> \o PathOutputPng) }
      [] kind = "runway" ->
             { Line(<<"log">>), <<"PAD">>, SavedLine(PathOutputMp4), SavedLine(PathOtherMp4),
               Line(<<"Saved", " ", "video", ":", " ">> \o PathOtherMp4) }
      [] OTHER ->
             { Line(<<"log">>), <<"PAD">>, <<"{design_w}">>, JsonNote,
               Line(<<"Wrote", ":", " ", "temp", "/", "out", ".", "json">>),
               Line(<<"Wrote", ":", " ", "out", ".", "json">>) }

ErrChunks(kind) ==
    CASE kind = "flatlay" -> { Line(<<"err">>), <<"BIGPAD">>, SavedLine(PathOutputPng) }
      [] kind = "showcase" -> { Line(<<"err">>), <<"BIGPAD">>, SavedLine(PathOutputPng) }
      [] kind = "runway" -> { Line(<<"err">>), <<"BIGPAD">>, SavedLine(PathOutputMp4) }
      [] OTHER -> { Line(<<"err">>), <<"BIGPAD">> }

\* close codes: 0, a failure, and null (-1) for a worker ended by a signal
ExitCodes == {0, 137, -1}

\* the close code after a failed spawn: the negative errno
SpawnFailCode == -2

WroteFile == Cwd \o << <<"temp">>, <<"out", ".", "json">> >>
ShadowFile == Cwd \o << <<"out", ".", "json">> >>
ShowcaseFallback == Cwd \o << <<"output">>, <<"d1", "_showcase", ".", "png">> >>
RunwayFallback == Cwd \o << <<"output">>, <<"d1", "_runway", ".", "mp4">> >>
FlatlayFallback == Cwd \o << <<"output">>, <<"d1", "_flatlay", ".", "png">> >>

BareFilesystem == (Cwd :> "dir")

\* what the worker left behind
ArtifactFilesystems ==
    {  (Cwd :> "dir") @@ (TempDir :> "dir") @@ (OutputDir :> "dir")
           @@ (WroteFile :> "json") @@ (ShowcaseFallback :> "file")
           @@ (RunwayFallback :> "file") @@ (FlatlayFallback :> "file"),
       (Cwd :> "dir") @@ (TempDir :> "dir") @@ (WroteFile :> "file"),
       \* a file that is no JSON in the working directory, and the written
       \* design of the same name under temp/
       (Cwd :> "dir") @@ (TempDir :> "dir") @@ (ShadowFile :> "file")
           @@ (WroteFile :> "json") }

\* the virtual environments under scripts/venv
VenvFilesystems ==
    {  BareFilesystem @@ (VenvPosix :> "file"),
       BareFilesystem @@ (VenvWin :> "file") }

JobFilesystems == {BareFilesystem} \cup ArtifactFilesystems \cup VenvFilesystems

\* process.platform and process.env.PYTHON_PATH
Environments ==
    {[platform |-> pl, PYTHON_PATH |-> pp] :
        pl \in {"linux", "win32"}, pp \in {<<>>, <<"/opt/py">>}}

\* the filesystem and environment a request meets
JobWorlds ==
    {[fs |-> f, env |-> e] : f \in {BareFilesystem} \cup VenvFilesystems,
                             e \in Environments}
    \cup {[fs |-> f, env |-> NoEnv] : f \in ArtifactFilesystems}

InitJob ==
    /\ pc = "job_received"
    /\ req \in JobRequests
    /\ \E w \in JobWorlds : fs = w.fs /\ env = w.env
    /\ resp = NoResp
    /\ probed = {}
    /\ readLog = {}
    /\ stdout = <<>>
    /\ stderr = <<>>
    /\ spawned = 0
    /\ staged = {}
    /\ ref = <<>>
    /\ decoded = <<>>
    /\ proc = NoProc
    /\ clock = 0
    /\ busted = <<>>
    /\ assetUrl = NoUrl
    /\ wire = NoWire
    /\ tasks = <<>>
    /\ origin = <<>>

\* from the entry of POST to the validation of the body
JobValidate ==
    /\ pc = "job_received"
    /\ LET st == Validate(req)
       IN  IF st = 0
           THEN /\ pc' = "validated"
                /\ resp' = resp
           ELSE /\ pc' = "done"
                /\ resp' = JsonError(st, ValidationMessage(req, st))
    /\ UNCHANGED <<req, fs, probed, readLog, stdout, stderr, spawned, staged, ref,
                   decoded, proc,
                   env, clock, busted,
                   assetUrl, wire, tasks, origin>>

\* ensureTempDir / mkdir, then writeFile of the staging files
JobStage ==
    /\ pc = "validated"
    /\ staged' = StagingFiles(req)
    /\ fs' = [p \in StagingFiles(req) |->
                 IF p[Len(p)][Len(p[Len(p)])] = "json" THEN "json_in" ELSE "file"]
             @@ (TempDir :> "dir") @@ fs
    /\ pc' = "staged"
    /\ UNCHANGED <<req, resp, probed, readLog, stdout, stderr, spawned, ref, decoded,
                   proc,
                   env, clock, busted,
                   assetUrl, wire, tasks, origin>>

\* mkdir or writeFile rejects: the catch of the handler answers 500
JobStageFail ==
    /\ pc = "validated"
    /\ resp' = JsonError(500, "staging error")
    /\ pc' = "done"
    /\ UNCHANGED <<req, fs, probed, readLog, stdout, stderr, spawned, staged, ref,
                   decoded, proc,
                   env, clock, busted,
                   assetUrl, wire, tasks, origin>>

\* virtual-showcase builds the reference URL after staging, in the same
\* synchronous stretch as spawn (lines 46-64): a throw there is caught by
\* the handler's catch and nothing is spawned
JobReferenceFail ==
    /\ pc = "staged"
    /\ req.kind = "showcase"
    /\ ReferenceThrows(req)
    /\ resp' = JsonError(500, "request error")
    /\ pc' = "done"
    /\ UNCHANGED <<req, fs, probed, readLog, stdout, stderr, spawned, staged, ref,
                   decoded, proc, env, clock, busted,
                   assetUrl, wire, tasks, origin>>

\* getPythonExecutable(), then spawn(python, args, ...) returns a child
JobSpawn ==
    /\ pc = "staged"
    /\ ~(req.kind = "showcase" /\ ReferenceThrows(req))
    /\ spawned' = spawned + 1
    /\ proc' = [proc EXCEPT !.cmd = getPythonExecutable(req, fs, env),
                            !.args = WorkerArgs(req, Now)]
    /\ pc' = "running"
    /\ UNCHANGED <<req, fs, resp, probed, readLog, stdout, stderr, staged, ref,
                   decoded, env, clock, busted,
                   assetUrl, wire, tasks, origin>>

\* spawn() throws synchronously (E2BIG, ENOMEM, an invalid argument).  In
\* flatlay-render, virtual-showcase and runway the call stands inside the
\* try block and the catch answers 500.  In apply-change it stands inside
\* the executor of the promise that POST returns without awaiting it
\* (lines 39-44): the promise rejects, the catch of line 137 never runs
\* and POST ends with that rejection, no response built.
JobSpawnThrow ==
    /\ pc = "staged"
    /\ ~(req.kind = "showcase" /\ ReferenceThrows(req))
    /\ spawned' = spawned + 1
    /\ IF req.kind = "apply"
       THEN /\ pc' = "rejected"
            /\ resp' = resp
       ELSE /\ pc' = "done"
            /\ resp' = JsonError(500, "spawn threw")
    /\ UNCHANGED <<req, fs, probed, readLog, stdout, stderr, staged, ref,
                   decoded, proc, env, clock, busted,
                   assetUrl, wire, tasks, origin>>

\* proc.stdout.on("data"): stdout += d.toString()
StdoutData ==
    /\ pc = "running"
    /\ proc.out < MaxOutChunks
    /\ \E d \in OutChunks(req.kind) : stdout' = stdout \o d
    /\ proc' = [proc EXCEPT !.out = @ + 1]
    /\ UNCHANGED <<pc, req, fs, resp, probed, readLog, stderr, spawned, staged, ref,
                   decoded,
                   env, clock, busted,
                   assetUrl, wire, tasks, origin>>

\* proc.stderr.on("data"): stderr += d.toString()
StderrData ==
    /\ pc = "running"
    /\ proc.err < MaxErrChunks
    /\ \E d \in ErrChunks(req.kind) : stderr' = stderr \o d
    /\ proc' = [proc EXCEPT !.err = @ + 1]
    /\ UNCHANGED <<pc, req, fs, resp, probed, readLog, stdout, spawned, staged, ref,
                   decoded,
                   env, clock, busted,
                   assetUrl, wire, tasks, origin>>

\* a close handler that stages the job anew after a failed run
WorkerCloseRetry ==
    /\ pc = "running"
    /\ \E c \in ExitCodes :
          IF c = 0
          THEN /\ proc' = [proc EXCEPT !.closed = TRUE, !.code = c]
               /\ resp' = CloseResponse(req, c, stdout, stderr, fs)
               /\ pc' = "done"
          ELSE /\ proc' = NoProc
               /\ resp' = resp
               /\ pc' = "staged"
    /\ UNCHANGED <<req, fs, probed, readLog, stdout, stderr, spawned, staged, ref,
                   decoded, env, clock, busted,
                   assetUrl, wire, tasks, origin>>

\* proc.on("close"): the worker ended and its streams are closed
WorkerClose ==
    /\ pc = "running"
    /\ \E c \in ExitCodes :
          /\ proc' = [proc EXCEPT !.closed = TRUE, !.code = c]
          /\ resp' = CloseResponse(req, c, stdout, stderr, fs)
    /\ pc' = "done"
    /\ UNCHANGED <<req, fs, probed, readLog, stdout, stderr, spawned, staged, ref,
                   decoded,
                   env, clock, busted,
                   assetUrl, wire, tasks, origin>>

\* proc.on("error"): the worker could not be spawned; it wrote nothing
WorkerError ==
    /\ pc = "running"
    /\ proc.out = 0 /\ proc.err = 0
    /\ wire = NoWire
    /\ proc' = [proc EXCEPT !.errored = TRUE]
    /\ resp' = ErrorResponse(req)
    /\ pc' = "responded"
    /\ UNCHANGED <<req, fs, probed, readLog, stdout, stderr, spawned, staged, ref,
                   decoded,
                   env, clock, busted,
                   assetUrl, wire, tasks, origin>>

\* that close event with its answer replacing the one already given
CloseAfterErrorOverwrites ==
    /\ pc = "responded"
    /\ proc' = [proc EXCEPT !.closed = TRUE, !.code = SpawnFailCode]
    /\ resp' = CloseResponse(req, SpawnFailCode, stdout, stderr, fs)
    /\ pc' = "done"
    /\ UNCHANGED <<req, fs, probed, readLog, stdout, stderr, spawned, staged, ref,
                   decoded, env, clock, busted,
                   assetUrl, wire, tasks, origin>>

\* the close event that follows a failed spawn: the promise is settled
\* already, so resolve() changes nothing
CloseAfterError ==
    /\ pc = "responded"
    /\ proc' = [proc EXCEPT !.closed = TRUE, !.code = SpawnFailCode]
    /\ pc' = "done"
    /\ UNCHANGED <<req, fs, resp, probed, readLog, stdout, stderr, spawned, staged, ref,
                   decoded,
                   env, clock, busted,
                   assetUrl, wire, tasks, origin>>

NextJob ==
    \/ JobValidate
    \/ JobStage
    \/ JobStageFail
    \/ JobReferenceFail
    \/ JobSpawn
    \/ JobSpawnThrow
    \/ StdoutData
    \/ StderrData
    \/ WorkerClose
    \/ WorkerError
    \/ CloseAfterError

SpecJob == InitJob /\ [][NextJob]_vars

----------------------------------------------------------------------------
(* One accepted job, its worker and the worker's pipes *)

\* the design ids of the accepted requests: a plain one and one that
\* climbs out of its directory
PlainId == <<"d1">>
ClimbingId == <<".", ".", "/", "d2">>

AcceptedBody(id, t) ==
    [form |-> "object", hasDesign |-> TRUE, design_id |-> id, textChange |-> t]

\* body.reference with body.modelConfig: absent, {} or an object with keys
RenderExtras ==
    { <<[reference |-> "none", referer |-> "none"], "none">>,
      <<[reference |-> "none", referer |-> "none"], "empty">>,
      <<[reference |-> "none", referer |-> "none"], "full">>,
      <<[reference |-> "absolute", referer |-> "none"], "full">>,
      <<[reference |-> "relative", referer |-> "valid"], "none">>,
      <<[reference |-> "relative", referer |-> "invalid"], "none">> }

WorkerRequests ==
    { [kind |-> "flatlay", body |-> AcceptedBody(PlainId, FALSE),
       link |-> NoReference, modelConfig |-> "none"],
      [kind |-> "apply", body |-> AcceptedBody(PlainId, TRUE),
       link |-> NoReference, modelConfig |-> "none"] }
    \cup
    {[kind |-> k, body |-> AcceptedBody(PlainId, FALSE), link |-> x[1],
      modelConfig |-> x[2]] : k \in {"showcase", "runway"}, x \in RenderExtras}
    \cup
    {[kind |-> k, body |-> AcceptedBody(ClimbingId, FALSE), link |-> NoReference,
      modelConfig |-> "none"] : k \in {"showcase", "runway"}}

\* what the worker writes to its stdout and stderr, chunk by chunk
PipeOutChunks(kind) ==
    CASE kind = "runway" -> { Line(<<"log">>), SavedLine(PathOutputMp4) }
      [] kind = "apply" ->
             { Line(<<"log">>), Line(<<"Wrote", ":", " ", "temp", "/", "out", ".", "json">>) }
      [] OTHER -> { Line(<<"log">>), SavedLine(PathOutputPng) }

PipeErrChunks(kind) == { Line(<<"err">>) }

WorkerFilesystems ==
    { BareFilesystem,
      (Cwd :> "dir") @@ (TempDir :> "dir") @@ (OutputDir :> "dir")
          @@ (WroteFile :> "json") @@ (ShowcaseFallback :> "file")
          @@ (RunwayFallback :> "file") }

InitWorker ==
    /\ pc = "job_received"
    /\ req \in WorkerRequests
    /\ fs \in WorkerFilesystems
    /\ env = NoEnv
    /\ resp = NoResp
    /\ probed = {}
    /\ readLog = {}
    /\ stdout = <<>>
    /\ stderr = <<>>
    /\ spawned = 0
    /\ staged = {}
    /\ ref = <<>>
    /\ decoded = <<>>
    /\ proc = NoProc
    /\ clock = 0
    /\ busted = <<>>
    /\ assetUrl = NoUrl
    /\ wire = NoWire
    /\ tasks = <<>>
    /\ origin = <<>>

\* the worker writes a chunk to its stdout pipe
WorkerWriteOut ==
    /\ pc = "running"
    /\ ~wire.exited
    /\ Len(wire.sentOut) < MaxOutChunks
    /\ \E d \in PipeOutChunks(req.kind) :
          wire' = [wire EXCEPT !.out = Append(@, d), !.sentOut = Append(@, d)]
    /\ UNCHANGED <<pc, req, fs, resp, probed, readLog, stdout, stderr, spawned, staged,
                   ref, decoded, proc, env, clock, busted,
                   assetUrl, tasks, origin>>

\* the worker writes a chunk to its stderr pipe
WorkerWriteErr ==
    /\ pc = "running"
    /\ ~wire.exited
    /\ Len(wire.sentErr) < MaxErrChunks
    /\ \E d \in PipeErrChunks(req.kind) :
          wire' = [wire EXCEPT !.err = Append(@, d), !.sentErr = Append(@, d)]
    /\ UNCHANGED <<pc, req, fs, resp, probed, readLog, stdout, stderr, spawned, staged,
                   ref, decoded, proc, env, clock, busted,
                   assetUrl, tasks, origin>>

\* the worker process ends; what it wrote may still be in the pipes
WorkerExit ==
    /\ pc = "running"
    /\ ~wire.exited
    /\ \E c \in ExitCodes : wire' = [wire EXCEPT !.exited = TRUE, !.code = c]
    /\ UNCHANGED <<pc, req, fs, resp, probed, readLog, stdout, stderr, spawned, staged,
                   ref, decoded, proc, env, clock, busted,
                   assetUrl, tasks, origin>>

\* proc.stdout.on("data"): the oldest chunk in the pipe is appended
StdoutPipeData ==
    /\ pc = "running"
    /\ wire.out # <<>>
    /\ stdout' = stdout \o Head(wire.out)
    /\ wire' = [wire EXCEPT !.out = Tail(@)]
    /\ proc' = [proc EXCEPT !.out = @ + 1]
    /\ UNCHANGED <<pc, req, fs, resp, probed, readLog, stderr, spawned, staged,
                   ref, decoded, env, clock, busted,
                   assetUrl, tasks, origin>>

\* proc.stderr.on("data")
StderrPipeData ==
    /\ pc = "running"
    /\ wire.err # <<>>
    /\ stderr' = stderr \o Head(wire.err)
    /\ wire' = [wire EXCEPT !.err = Tail(@)]
    /\ proc' = [proc EXCEPT !.err = @ + 1]
    /\ UNCHANGED <<pc, req, fs, resp, probed, readLog, stdout, spawned, staged,
                   ref, decoded, env, clock, busted,
                   assetUrl, tasks, origin>>

\* a handler that answers when the process ends, as a listener of the
\* exit event would
PipeCloseAtExit ==
    /\ pc = "running"
    /\ wire.exited
    /\ proc' = [proc EXCEPT !.closed = TRUE, !.code = wire.code]
    /\ resp' = CloseResponse(req, wire.code, stdout, stderr, fs)
    /\ pc' = "done"
    /\ UNCHANGED <<req, fs, probed, readLog, stdout, stderr, spawned, staged,
                   ref, decoded, env, clock, busted,
                   assetUrl, wire, tasks, origin>>

\* proc.on("close"): emitted once the process has ended and both of its
\* streams have been read to their end
PipeClose ==
    /\ pc = "running"
    /\ wire.exited
    /\ wire.out = <<>> /\ wire.err = <<>>
    /\ proc' = [proc EXCEPT !.closed = TRUE, !.code = wire.code]
    /\ resp' = CloseResponse(req, wire.code, stdout, stderr, fs)
    /\ pc' = "done"
    /\ UNCHANGED <<req, fs, probed, readLog, stdout, stderr, spawned, staged,
                   ref, decoded, env, clock, busted,
                   assetUrl, wire, tasks, origin>>

NextWorker ==
    \/ JobValidate
    \/ JobStage
    \/ JobStageFail
    \/ JobReferenceFail
    \/ JobSpawn
    \/ JobSpawnThrow
    \/ WorkerWriteOut
    \/ WorkerWriteErr
    \/ WorkerExit
    \/ StdoutPipeData
    \/ StderrPipeData
    \/ PipeClose
    \/ WorkerError
    \/ CloseAfterError

SpecWorker == InitWorker /\ [][NextWorker]_vars

\* the steps of PipeClose as the position of the request shows them: the
\* close event reaches a handler whose worker has ended, its pipes empty
CloseEvent ==
    /\ pc = "running"
    /\ wire.exited
    /\ wire.out = <<>> /\ wire.err = <<>>
    /\ pc' = "done"

\* the awaited mkdir and writeFile settle and the handler runs on to
\* spawn; the worker ends and its pipes are read to their end, so that
\* the close event the handler waits for does come
SpecWorkerFair ==
    /\ SpecWorker
    /\ WF_vars(JobStage \/ JobStageFail)
    /\ WF_vars(JobSpawn \/ JobSpawnThrow \/ JobReferenceFail)
    /\ WF_vars(WorkerExit)
    /\ WF_vars(StdoutPipeData)
    /\ WF_vars(StderrPipeData)
    /\ WF_pc(CloseEvent)

----------------------------------------------------------------------------
(* Two requests served at the same time by one server process *)

TaskIds == {1, 2}

\* most milliseconds that pass while the two requests are staged
MaxElapsed == 1
\* most chunks each of the two workers writes
MaxTaskChunks == 1

OtherId == <<"d2">>

\* GET /api/assets?path=output/d1_showcase.png
AssetRequest ==
    [kind |-> "asset",
     query |-> [hasPath |-> TRUE,
                path |-> <<"output", "/", "d1", "_showcase", ".", "png">>]]

JobRequest(k, id) ==
    [kind |-> k, body |-> AcceptedBody(id, k = "apply"), link |-> NoReference,
     modelConfig |-> "none"]

FirstRequests == { JobRequest("flatlay", PlainId), JobRequest("showcase", PlainId) }

SecondRequests ==
    { JobRequest("apply", OtherId), JobRequest("flatlay", OtherId),
      JobRequest("showcase", PlainId), AssetRequest }

\* a request as the server holds it: the locals of its handler
NewTask(q) ==
    [req |-> q, pc |-> "received", at |-> "", staged |-> {}, stdout |-> <<>>,
     sent |-> <<>>, code |-> 0, resp |-> NoResp, seen |-> <<>>, read |-> 0,
     wrote |-> FALSE]

IsJob(t) == tasks[t].req.kind # "asset"

InitTwo ==
    /\ tasks \in {[t \in TaskIds |-> IF t = 1 THEN NewTask(a) ELSE NewTask(b)] :
                     a \in FirstRequests, b \in SecondRequests}
    /\ fs = (Cwd :> "dir") @@ (OutputDir :> "dir")
    /\ origin = <<>>
    /\ clock = 0
    /\ pc = "serving"
    /\ req = <<>>
    /\ env = NoEnv
    /\ resp = NoResp
    /\ probed = {}
    /\ readLog = {}
    /\ stdout = <<>>
    /\ stderr = <<>>
    /\ spawned = 0
    /\ staged = {}
    /\ ref = <<>>
    /\ decoded = <<>>
    /\ proc = NoProc
    /\ busted = <<>>
    /\ assetUrl = NoUrl
    /\ wire = NoWire

\* Date.now() moves on; only the staging of a job reads it
MillisecondPasses ==
    /\ clock < MaxElapsed
    /\ \E t \in TaskIds : IsJob(t) /\ tasks[t].pc = "received"
    /\ clock' = clock + 1
    /\ UNCHANGED <<pc, req, fs, resp, probed, readLog, stdout, stderr, spawned, staged,
                   ref, decoded, proc, env, busted,
                   assetUrl, wire, tasks, origin>>

\* the handler of request t validates the body and writes its staging
\* files, named by Date.now() or by the design id
TaskStage(t) ==
    /\ IsJob(t)
    /\ tasks[t].pc = "received"
    /\ Validate(tasks[t].req) = 0
    /\ LET now == ToString(clock)
           files == StagingFilesAt(tasks[t].req, now)
       IN  /\ fs' = [p \in files |->
                        IF p[Len(p)][Len(p[Len(p)])] = "json" THEN "json_in" ELSE "file"]
                    @@ (TempDir :> "dir") @@ fs
           /\ origin' = [p \in files |-> t] @@ origin
           /\ tasks' = [tasks EXCEPT ![t].pc = "staged", ![t].at = now,
                                     ![t].staged = files]
    /\ UNCHANGED <<pc, req, resp, probed, readLog, stdout, stderr, spawned, staged,
                   ref, decoded, proc, env, clock, busted,
                   assetUrl, wire>>

\* spawn, then `await new Promise`: the handler of t waits for its worker
TaskSpawn(t) ==
    /\ tasks[t].pc = "staged"
    /\ tasks' = [tasks EXCEPT ![t].pc = "running"]
    /\ UNCHANGED <<pc, req, fs, resp, probed, readLog, stdout, stderr, spawned, staged,
                   ref, decoded, proc, env, clock, busted,
                   assetUrl, wire, origin>>

\* the worker of t opens the design file named on its command line
WorkerReadsDesign(t) ==
    /\ tasks[t].pc = "running"
    /\ tasks[t].read = 0
    /\ tasks' = [tasks EXCEPT ![t].read = origin[DesignPathAt(tasks[t].req, tasks[t].at)]]
    /\ UNCHANGED <<pc, req, fs, resp, probed, readLog, stdout, stderr, spawned, staged,
                   ref, decoded, proc, env, clock, busted,
                   assetUrl, wire, origin>>

\* output/<design_id>_showcase.png under the working directory
ShowcaseArtifact(q) ==
    ResolveJoin(Cwd, FallbackPath(q.body.design_id, "_showcase", "png"))

\* the showcase worker of t saves its image under the conventional name
WorkerWritesArtifact(t) ==
    /\ tasks[t].pc = "running"
    /\ tasks[t].req.kind = "showcase"
    /\ ~tasks[t].wrote
    /\ fs' = (ShowcaseArtifact(tasks[t].req) :> "file") @@ fs
    /\ origin' = (ShowcaseArtifact(tasks[t].req) :> t) @@ origin
    /\ tasks' = [tasks EXCEPT ![t].wrote = TRUE]
    /\ UNCHANGED <<pc, req, resp, probed, readLog, stdout, stderr, spawned, staged,
                   ref, decoded, proc, env, clock, busted,
                   assetUrl, wire>>

\* a server whose handlers append to one buffer of the module
TaskDataSharedBuffer(t) ==
    /\ tasks[t].pc = "running"
    /\ Len(tasks[t].sent) < MaxTaskChunks
    /\ \E d \in PipeOutChunks(tasks[t].req.kind) :
          tasks' = [u \in TaskIds |->
                       IF u = t
                       THEN [tasks[u] EXCEPT !.stdout = @ \o d, !.sent = Append(@, d)]
                       ELSE [tasks[u] EXCEPT !.stdout = @ \o d]]
    /\ UNCHANGED <<pc, req, fs, resp, probed, readLog, stdout, stderr, spawned, staged,
                   ref, decoded, proc, env, clock, busted,
                   assetUrl, wire, origin>>

\* proc.stdout.on("data") of request t: `stdout` is a local of its handler
TaskData(t) ==
    /\ tasks[t].pc = "running"
    /\ Len(tasks[t].sent) < MaxTaskChunks
    /\ \E d \in PipeOutChunks(tasks[t].req.kind) :
          tasks' = [tasks EXCEPT ![t].stdout = @ \o d, ![t].sent = Append(@, d)]
    /\ UNCHANGED <<pc, req, fs, resp, probed, readLog, stdout, stderr, spawned, staged,
                   ref, decoded, proc, env, clock, busted,
                   assetUrl, wire, origin>>

\* proc.on("close") of request t: its handler answers
TaskClose(t) ==
    /\ tasks[t].pc = "running"
    /\ \E c \in {0, 137} :
          tasks' = [tasks EXCEPT ![t].pc = "done", ![t].code = c, ![t].seen = fs,
                                 ![t].resp = CloseResponse(tasks[t].req, c,
                                                           tasks[t].stdout, <<>>, fs)]
    /\ UNCHANGED <<pc, req, fs, resp, probed, readLog, stdout, stderr, spawned, staged,
                   ref, decoded, proc, env, clock, busted,
                   assetUrl, wire, origin>>

\* GET of the asset route, served in one synchronous stretch
TaskAsset(t) ==
    /\ ~IsJob(t)
    /\ tasks[t].pc = "received"
    /\ tasks' = [tasks EXCEPT ![t].pc = "done", ![t].seen = fs,
                              ![t].resp = AssetResolve(tasks[t].req.query, fs).resp]
    /\ UNCHANGED <<pc, req, fs, resp, probed, readLog, stdout, stderr, spawned, staged,
                   ref, decoded, proc, env, clock, busted,
                   assetUrl, wire, origin>>

NextTwo ==
    \/ MillisecondPasses
    \/ \E t \in TaskIds :
          \/ TaskStage(t)
          \/ TaskSpawn(t)
          \/ WorkerReadsDesign(t)
          \/ WorkerWritesArtifact(t)
          \/ TaskData(t)
          \/ TaskClose(t)
          \/ TaskAsset(t)

SpecTwo == InitTwo /\ [][NextTwo]_vars

----------------------------------------------------------------------------
(* Cache busting in the page: withCacheBuster *)

\* the cache buster that always opens a query string
withCacheBusterAlwaysOpens(url, now) ==
    IF url = <<>> THEN [isNull |-> TRUE, value |-> <<>>]
    ELSE [isNull |-> FALSE, value |-> url \o <<"?", "t", "=", ToString(now)>>]

\* url ? (url.includes("?") ? `${url}&t=${Date.now()}` : `${url}?t=${Date.now()}`) : null
withCacheBuster(url, now) ==
    IF url = <<>> THEN [isNull |-> TRUE, value |-> <<>>]
    ELSE IF \E i \in 1..Len(url) : url[i] = "?"
         THEN [isNull |-> FALSE, value |-> url \o <<"&", "t", "=", ToString(now)>>]
         ELSE [isNull |-> FALSE, value |-> url \o <<"?", "t", "=", ToString(now)>>]

\* pieces of the URLs the page hands over: a path, the separators of the
\* query string and of the fragment, and parameters
UrlAlphabet == {"/a", "?", "&", "#", "q=1"}

InitBust ==
    /\ pc = "page"
    /\ req \in {[url |-> u] : u \in SeqsUpTo(UrlAlphabet, MaxUrlLen)}
    /\ fs = BareFilesystem
    /\ resp = NoResp
    /\ probed = {}
    /\ readLog = {}
    /\ stdout = <<>>
    /\ stderr = <<>>
    /\ spawned = 0
    /\ staged = {}
    /\ ref = <<>>
    /\ decoded = <<>>
    /\ proc = NoProc
    /\ env = NoEnv
    /\ clock = 1
    /\ busted = <<>>
    /\ assetUrl = NoUrl
    /\ wire = NoWire
    /\ tasks = <<>>
    /\ origin = <<>>

\* Date.now() moves on
Tick ==
    /\ pc = "page"
    /\ clock < MaxClock
    /\ clock' = clock + 1
    /\ UNCHANGED <<pc, req, fs, resp, probed, readLog, stdout, stderr, spawned, staged,
                   ref, decoded, proc, env, busted,
                   assetUrl, wire, tasks, origin>>

\* the page renders an image or a video: withCacheBuster(url); the URL is
\* shown at most once per reading of the clock here
CallWithCacheBuster ==
    /\ pc = "page"
    /\ IF busted = <<>> THEN TRUE ELSE busted[Len(busted)].at < clock
    /\ busted' = Append(busted, [at |-> clock, out |-> withCacheBuster(req.url, clock)])
    /\ UNCHANGED <<pc, req, fs, resp, probed, readLog, stdout, stderr, spawned, staged,
                   ref, decoded, proc, env, clock,
                   assetUrl, wire, tasks, origin>>

NextBust ==
    \/ Tick
    \/ CallWithCacheBuster

SpecBust == InitBust /\ [][NextBust]_vars

----------------------------------------------------------------------------
(* The page's converter: toAssetsUrl *)

\* /^https?:\/\//i.test(s)
IsHttpUrl(s) ==
    /\ Len(s) >= 4
    /\ s[1] \in {"http", "https", "HTTPS"}
    /\ s[2] = ":" /\ s[3] = "/" /\ s[4] = "/"

\* s.indexOf(word + "/"), 0 when the prefix does not occur
IndexOfPrefix(s, word) ==
    LET at == {i \in 1..(Len(s) - 1) : s[i] = word /\ s[i + 1] = "/"}
    IN  IF at = {} THEN 0 ELSE Min(at)

\* the first entry of allowedPrefixes that occurs in s, in list order
FirstAllowedPrefix(s) ==
    LET prefs == <<"renders", "output", "temp", "public">>
        found == {k \in 1..Len(prefs) : IndexOfPrefix(s, prefs[k]) # 0}
    IN  IF found = {} THEN 0 ELSE IndexOfPrefix(s, prefs[Min(found)])

\* toAssetsUrl(backendPath), with API_BASE the configured backend origin
toAssetsUrl(backendPath, apiBase) ==
    IF backendPath = <<>> THEN NoUrl
    ELSE IF IsHttpUrl(backendPath) THEN [isNull |-> FALSE, value |-> backendPath]
    ELSE LET normalized == Trim(ReplaceBackslashes(backendPath))
             idx == FirstAllowedPrefix(normalized)
         IN  IF normalized # <<>> /\ normalized[1] \in {"/api/assets", "/assets"}
             THEN [isNull |-> FALSE, value |-> normalized]
             ELSE IF idx # 0
             THEN [isNull |-> FALSE,
                   value |-> apiBase \o <<"/assets", "/">>
                                 \o encodeURIComponent(StripLeadingSlashes(Drop(normalized, idx - 1)))]
             ELSE [isNull |-> FALSE,
                   value |-> apiBase \o <<"/">> \o StripLeadingSlashes(normalized)]

\* how a backend path starts: relative, a URL, a drive, a slash, a
\* reference the server made already
RefHeads ==
    { <<>>, <<"https", ":", "/", "/">>, <<"http", ":", "/", "/">>,
      <<"C", ":">>, <<"/api/assets", "?", "path", "=">> }

RefAlphabet == {"/", "\\", "output", "x", " "}

\* longest backend path after its head, in tokens
MaxRefLen == 3

\* NEXT_PUBLIC_API_BASE_URL: unset, or the origin of a backend
ApiBases == { <<>>, <<"https", ":", "/", "/", "api">> }

InitRef ==
    /\ pc = "ref_input"
    /\ req \in {[hasPath |-> TRUE, path |-> h \o b, apiBase |-> a] :
                   h \in RefHeads, b \in SeqsUpTo(RefAlphabet, MaxRefLen), a \in ApiBases}
    /\ fs = (Cwd :> "dir")
    /\ resp = NoResp
    /\ probed = {}
    /\ readLog = {}
    /\ stdout = <<>>
    /\ stderr = <<>>
    /\ spawned = 0
    /\ staged = {}
    /\ ref = <<>>
    /\ decoded = <<>>
    /\ proc = NoProc
    /\ env = NoEnv
    /\ clock = 0
    /\ busted = <<>>
    /\ assetUrl = NoUrl
    /\ wire = NoWire
    /\ tasks = <<>>
    /\ origin = <<>>

\* a Next.js job handler answers imageUrl / videoUrl: the normalized path
HandlerReference ==
    /\ pc = "ref_input"
    /\ ref' = normalizeForBrowser(req.path)
    /\ pc' = "ref_server"
    /\ UNCHANGED <<req, fs, resp, probed, readLog, stdout, stderr, spawned, staged,
                   decoded, proc, env, clock, busted,
                   assetUrl, wire, tasks, origin>>

\* the page converts the imageUrl of the answer
ConvertImageUrl ==
    /\ pc = "ref_server"
    /\ assetUrl' = toAssetsUrl(ref, req.apiBase)
    /\ pc' = "ref_shown"
    /\ UNCHANGED <<req, fs, resp, probed, readLog, stdout, stderr, spawned, staged,
                   ref, decoded, proc, env, clock, busted,
                   wire, tasks, origin>>

\* the answer of the backend carries savedPath only: the page converts the
\* path as the worker reported it
ConvertSavedPath ==
    /\ pc = "ref_input"
    /\ assetUrl' = toAssetsUrl(req.path, req.apiBase)
    /\ pc' = "ref_shown"
    /\ UNCHANGED <<req, fs, resp, probed, readLog, stdout, stderr, spawned, staged,
                   ref, decoded, proc, env, clock, busted,
                   wire, tasks, origin>>

NextRef ==
    \/ HandlerReference
    \/ ConvertImageUrl
    \/ ConvertSavedPath

SpecRef == InitRef /\ [][NextRef]_vars

----------------------------------------------------------------------------
(* Claims about the Secure Asset Resolver, checked under SpecAsset *)

AssetDone == pc = "asset_done"

ReqPath == Requested(req.path)

ReqFirstSegment == SplitSlash(ReqPath)[1]

\* C1: a request whose normalized path contains ".." anywhere is rejected
\* (status 400) and no file is tested for existence or read.
C1_TraversalRejectedUntouched ==
    (AssetDone /\ req.hasPath /\ IncludesDotDot(ReqPath))
        => /\ resp.status = 400
           /\ ~resp.success
           /\ probed = {}
           /\ readLog = {}

\* a rejected traversal whose target exists under an allowed first segment
C1_Witness ==
    /\ AssetDone
    /\ req.hasPath
    /\ IncludesDotDot(ReqPath)
    /\ ReqFirstSegment \in ALLOWED_DIRS
    /\ Exists(fs, ResolveJoin(Cwd, ReqPath))
    /\ resp.status = 400
    /\ probed = {}

\* C2: every 200 response serves a file whose requested path starts with
\* renders, output or public, has no parent-directory segment, and whose
\* absolute path is the working directory or below it.
C2_ServedFileInsideAllowList ==
    (AssetDone /\ resp.status = 200)
        => /\ ReqFirstSegment \in { <<"renders">>, <<"output">>, <<"public">> }
           /\ ~IncludesDotDot(ReqPath)
           /\ \A i \in 1..Len(SplitSlash(ReqPath)) : SplitSlash(ReqPath)[i] # <<".", ".">>
           /\ StartsWith(resp.body, Cwd)
           /\ readLog = {resp.body}
           /\ Kind(fs, resp.body) = "file"

\* a file served although the request wrote its path with "//" or "\\"
C2_Witness ==
    /\ AssetDone
    /\ resp.status = 200
    /\ resp.body = OutputFile
    /\ req.path # <<"output", "/", "x.png">>

\* C3 as stated: a first segment outside {renders, output, public, temp}
\* gives 403 whatever the rest of the path is.
C3_Original ==
    (AssetDone /\ req.hasPath /\ req.path # <<>>
       /\ ReqFirstSegment \notin { <<"renders">>, <<"output">>, <<"public">>, <<"temp">> })
        => resp.status = 403

\* C3 amended: a non-empty path parameter that contains no ".." and whose
\* first segment is outside {renders, output, public} (so temp is refused
\* as well) gives 403, whether or not the path exists, and nothing is
\* tested for existence.
C3_ForbiddenFirstSegment ==
    (AssetDone /\ req.hasPath /\ req.path # <<>> /\ ~IncludesDotDot(ReqPath)
       /\ ReqFirstSegment \notin { <<"renders">>, <<"output">>, <<"public">> })
        => /\ resp.status = 403
           /\ probed = {}

\* a forbidden request for a file that exists
C3_Witness ==
    /\ AssetDone
    /\ req.hasPath
    /\ ~IncludesDotDot(ReqPath)
    /\ ReqFirstSegment \notin { <<"renders">>, <<"output">>, <<"public">>, <<"temp">> }
    /\ Kind(fs, ResolveJoin(Cwd, ReqPath)) = "file"
    /\ resp.status = 403

\* C4 as stated: every request ends with 200, 404, 403 or 400.
C4_FourOutcomes ==
    AssetDone => resp.status \in {200, 404, 403, 400}

----------------------------------------------------------------------------
(* Claims about the Path Normalizer, checked under SpecPath *)

\* a path that is absolute neither for POSIX nor for Windows
IsRelativePath(p) ==
    /\ ~(p # <<>> /\ Head(p) \in {"/", "\\"})
    /\ ~(HasDrivePrefix(p) /\ Len(p) >= 3 /\ p[3] \in {"/", "\\"})

\* C5 as stated: for a relative path without "..", the reference decodes
\* to the path with its backslashes turned into slashes.
C5_Original ==
    (pc = "path_decoded" /\ IsRelativePath(req.path) /\ ~IncludesDotDot(req.path))
        => decoded = ReplaceBackslashes(req.path)

\* C5 amended: the round trip holds for relative paths without ".." that
\* do not begin with a drive-letter prefix.
C5_RoundTrip ==
    (pc = "path_decoded" /\ IsRelativePath(req.path) /\ ~IncludesDotDot(req.path)
       /\ ~HasDrivePrefix(req.path))
        => /\ SearchParamPath(ref).found
           /\ decoded = ReplaceBackslashes(req.path)

\* a path with a backslash and characters the query string reserves
C5_Witness ==
    /\ pc = "path_decoded"
    /\ req.path = <<"output", "\\", "+", "&">>
    /\ decoded = <<"output", "/", "+", "&">>
    /\ ref # <<"/api/assets", "?", "path", "=">> \o decoded

----------------------------------------------------------------------------
(* Claims about the Job Request Handlers, checked under SpecJob *)

RenderKinds == {"flatlay", "showcase", "runway"}

\* the body lacks what the handler requires: design.design_id for
\* virtual-showcase and runway, design or textChange for apply-change
LacksRequired(q) ==
    /\ q.body.form \in {"null", "object"}
    /\ \/ /\ q.kind \in {"showcase", "runway"}
          /\ (q.body.form = "null" \/ ~q.body.hasDesign \/ q.body.design_id = <<>>)
       \/ /\ q.kind = "apply"
          /\ (q.body.form = "null" \/ ~q.body.hasDesign \/ ~q.body.textChange)

\* C6 as stated: a request lacking its required fields is answered 400 and
\* nothing is staged or spawned.
C6_MissingFieldsRejected ==
    (LacksRequired(req) /\ pc # "job_received")
        => /\ pc = "done"
           /\ resp.status = 400
           /\ staged = {}
           /\ spawned = 0
           /\ fs \in JobFilesystems

\* C7 as stated: flatlay-render answers 400 to a design without design_id
\* and spawns no worker.
C7_FlatlayRequiresDesignId ==
    (/\ req.kind = "flatlay"
     /\ req.body.form = "object"
     /\ req.body.hasDesign
     /\ req.body.design_id = <<>>
     /\ pc # "job_received")
        => /\ resp.status = 400
           /\ spawned = 0

\* the worker ran and closed with a code other than 0
ClosedNonZero ==
    /\ pc = "done"
    /\ proc.closed
    /\ ~proc.errored
    /\ proc.code # 0

IsFirstChars(text, full, n) ==
    IF TextWidth(full) <= n THEN text = full
    ELSE LET cut == text # <<>> /\ text[Len(text)] = "<cut>"
             whole == IF cut THEN Take(text, Len(text) - 1) ELSE text
         IN  /\ StartsWith(full, whole)
             /\ Len(whole) < Len(full)
             /\ TextWidth(whole) <= n
             /\ TextWidth(Take(full, Len(whole) + 1)) > n
             /\ cut <=> TextWidth(whole) < n

C9_SuccessHasArtifact ==
    (pc = "done" /\ req.kind \in RenderKinds /\ resp.success) => resp.hasUrl

\* the lines of a text
RECURSIVE Lines(_)
Lines(text) ==
    IF \A i \in 1..Len(text) : ~IsNewline(text[i]) THEN <<text>>
    ELSE LET k == Min({i \in 1..Len(text) : IsNewline(text[i])})
         IN  <<Take(text, k - 1)>> \o Lines(Drop(text, k))

HasToken(line, t) == \E i \in 1..Len(line) : line[i] = t

ArtifactExts(kind) == IF kind = "runway" THEN {"mp4"} ELSE {"png", "jpg", "jpeg"}

\* the lines of the captured output that mention Saved
SavedLines ==
    LET all == Lines(stdout) \o Lines(stderr)
    IN  [n \in {i \in 1..Len(all) : HasToken(all[i], "Saved")} |-> all[n]]

\* the captured output holds exactly one line mentioning Saved, and it is
\* `Saved: <path>` with a path named <stem>.<ext> of the job's type
OneMarkerLine ==
    /\ Cardinality(DOMAIN SavedLines) = 1
    /\ LET line == SavedLines[CHOOSE n \in DOMAIN SavedLines : TRUE]
       IN  /\ StartsWith(line, <<"Saved", ":", " ">>)
           /\ Len(line) >= 6
           /\ line[Len(line) - 1] = "."
           /\ line[Len(line)] \in ArtifactExts(req.kind)
           /\ line[Len(line) - 2] \notin {"/", "\\"}

MarkerPath == Drop(SavedLines[CHOOSE n \in DOMAIN SavedLines : TRUE], 3)

ClosedZeroWithMarker ==
    /\ pc = "done"
    /\ req.kind \in RenderKinds
    /\ proc.closed
    /\ ~proc.errored
    /\ proc.code = 0
    /\ OneMarkerLine

\* C10 as stated: with exit code 0 and exactly one marker line
\* `Saved: <path>`, the answer carries the client reference of <path>.
C10_Original ==
    ClosedZeroWithMarker
        => /\ resp.success
           /\ resp.hasUrl
           /\ resp.url = normalizeForBrowser(MarkerPath)

\* what the patterns of each handler ask of the path
PathExtractable(kind, path) ==
    /\ ~IsSpace(Head(path))
    /\ kind \in {"showcase", "runway"}
          => \A i \in 1..Len(path) : ~IsSpace(path[i]) /\ ~IsQuote(path[i])
    /\ kind = "runway"
          => /\ \/ StartsWith(path, <<"output", "/">>)
                \/ StartsWith(path, <<"renders", "/">>)
             /\ Len(path) >= 5

\* C10 amended: the answer carries the client reference of <path> when the
\* path does not begin with white space, for showcase and runway holds no
\* white space or quote, and for runway begins with output/ or renders/.
C10_MarkerPathReturned ==
    (ClosedZeroWithMarker /\ PathExtractable(req.kind, MarkerPath))
        => /\ resp.success
           /\ resp.status = 200
           /\ resp.hasUrl
           /\ resp.url = normalizeForBrowser(MarkerPath)

\* a runway marker after a log line, while the conventional file exists too
C10_Witness ==
    /\ ClosedZeroWithMarker
    /\ req.kind = "runway"
    /\ stdout = Line(<<"log">>) \o SavedLine(PathOutputMp4)
    /\ Exists(fs, RunwayFallback)
    /\ resp.url = <<"/api/assets", "?", "path", "=", "output", "%2F", "x", ".", "mp4">>

----------------------------------------------------------------------------
(* Claims about the conventional fallback and the design mutation          *)
(* pipeline, checked under SpecJob                                         *)

\* the worker ran and closed with code 0
ClosedZero ==
    /\ pc = "done"
    /\ proc.closed
    /\ ~proc.errored
    /\ proc.code = 0

\* output/<designId>_<jobKind>.<ext>
ConventionalPath ==
    <<"output", "/">> \o req.body.design_id
        \o (CASE req.kind = "flatlay" -> <<"_flatlay", ".", "png">>
              [] req.kind = "showcase" -> <<"_showcase", ".", "png">>
              [] OTHER -> <<"_runway", ".", "mp4">>)

\* C11 as stated: after exit code 0 with no line of the output mentioning
\* Saved, flatlay, showcase and runway answer with the conventional path
\* output/<designId>_<jobKind>.<ext> exactly when that file exists, and
\* otherwise with a failure carrying the whole captured text.
C11_FallbackIffExists ==
    (/\ ClosedZero
     /\ req.kind \in RenderKinds
     /\ req.body.design_id # <<>>
     /\ DOMAIN SavedLines = {})
        => IF Exists(fs, ResolveJoin(Cwd, ConventionalPath))
           THEN /\ resp.success
                /\ resp.hasUrl
                /\ resp.url = normalizeForBrowser(ConventionalPath)
           ELSE /\ ~resp.success
                /\ resp.hasRaw
                /\ resp.raw_stdout = stdout
                /\ resp.raw_stderr = stderr

\* the lines of stdout that hold the marker Wrote:
WroteLines ==
    LET all == Lines(stdout)
    IN  {n \in 1..Len(all) :
            \E i \in 1..(Len(all[n]) - 1) : all[n][i] = "Wrote" /\ all[n][i + 1] = ":"}

\* the path the first marker reports: the rest of its line, trimmed, a
\* quote at either end removed
ReportedPath ==
    LET line == Lines(stdout)[Min(WroteLines)]
        i == Min({k \in 1..(Len(line) - 1) : line[k] = "Wrote" /\ line[k + 1] = ":"})
        t == Trim(Drop(line, i + 1))
        u == IF t # <<>> /\ IsQuote(Head(t)) THEN Tail(t) ELSE t
    IN  IF u # <<>> /\ IsQuote(u[Len(u)]) THEN Take(u, Len(u) - 1) ELSE u

\* a line of stdout is `Wrote: <path>` for this relative path
SomeLineWrote(path) ==
    \E n \in 1..Len(Lines(stdout)) : Lines(stdout)[n] = <<"Wrote", ":", " ">> \o path

\* the base directories a reported relative path is looked for in, in order
CandidateBases ==
    << Cwd, Cwd \o << <<"scripts">> >>, Cwd \o << <<"temp">> >>,
       Cwd \o << <<"output">> >> >>

\* the bases under which the path exists
BasesHolding(path) ==
    {b \in 1..Len(CandidateBases) : Exists(fs, ResolveJoin(CandidateBases[b], path))}

\* the first candidate of the reported path that exists
FirstExisting == ResolveJoin(CandidateBases[Min(BasesHolding(ReportedPath))], ReportedPath)

ReportedPaths == { <<"temp", "/", "out", ".", "json">>, <<"out", ".", "json">> }

\* C12 as stated: after exit code 0, with `Wrote: <path>` in stdout and
\* <path> holding valid JSON under one of the candidate base directories,
\* apply-change answers success:true with the document of such a file.
C12_Original ==
    \A path \in ReportedPaths :
        (/\ ClosedZero
         /\ req.kind = "apply"
         /\ SomeLineWrote(path)
         /\ \E b \in BasesHolding(path) : Kind(fs, ResolveJoin(CandidateBases[b], path)) = "json")
            => /\ resp.success
               /\ resp.design = "design_w"

\* C12 amended: after exit code 0, when the path of the first Wrote: marker
\* of stdout is relative and the first of its candidates that exists holds
\* valid JSON, apply-change answers success:true with the document parsed
\* from that candidate: the design the worker wrote, not the submitted one.
C12_WrittenDesignReturned ==
    (/\ ClosedZero
     /\ req.kind = "apply"
     /\ WroteLines # {}
     /\ ReportedPath # <<>>
     /\ ~IsAbsolute(ReportedPath)
     /\ BasesHolding(ReportedPath) # {}
     /\ Kind(fs, FirstExisting) \in {"json", "json_in"})
        => /\ resp.success
           /\ resp.status = 200
           /\ Kind(fs, FirstExisting) = "json" => resp.design = "design_w"
           /\ Kind(fs, FirstExisting) = "json_in" => resp.design = "design_in"

\* the written design is found under temp/ although a file of the same name
\* stands in the working directory of another marker's path
C12_Witness ==
    /\ ClosedZero
    /\ req.kind = "apply"
    /\ stdout = Line(<<"log">>) \o Line(<<"Wrote", ":", " ", "temp", "/", "out", ".", "json">>)
    /\ Exists(fs, ShadowFile)
    /\ FirstExisting = WroteFile
    /\ resp.success
    /\ resp.design = "design_w"

\* the reported path exists under no candidate base
ReportedNowhere ==
    /\ WroteLines # {}
    /\ ReportedPath # <<>>
    /\ ~IsAbsolute(ReportedPath)
    /\ BasesHolding(ReportedPath) = {}

\* C13 as stated: when the Wrote: path of stdout exists under no candidate
\* base directory, apply-change answers success:false with the list of the
\* candidates it tried.
C13_Original ==
    (/\ pc = "done"
     /\ req.kind = "apply"
     /\ proc.closed
     /\ ~proc.errored
     /\ ReportedNowhere)
        => /\ ~resp.success
           /\ resp.tried # <<>>

\* C13 amended: after exit code 0, when the Wrote: path of stdout exists
\* under no candidate base directory, apply-change answers success:false,
\* HTTP 500, with the candidates it tried, and with no design: neither
\* stdout parsed as JSON nor the submitted design.
C13_MissingWrittenFileFails ==
    (ClosedZero /\ req.kind = "apply" /\ ReportedNowhere)
        => /\ ~resp.success
           /\ resp.status = 500
           /\ resp.design = ""
           /\ \A b \in 1..Len(CandidateBases) :
                 \E i \in 1..Len(resp.tried) :
                     resp.tried[i] = ResolveJoin(CandidateBases[b], ReportedPath)

\* stdout is a JSON document that mentions a written path found nowhere
C13_Witness ==
    /\ ClosedZero
    /\ req.kind = "apply"
    /\ stdout = JsonNote
    /\ IsJsonText(stdout)
    /\ ReportedNowhere
    /\ Len(resp.tried) = 5

\* an apply-change worker ran and closed
ApplyRan ==
    /\ pc = "done"
    /\ req.kind = "apply"
    /\ proc.closed
    /\ ~proc.errored

\* exit code 0 and a document to return: the first existing candidate of
\* the Wrote: path holds JSON, or there is no marker and stdout is JSON
ApplyGood ==
    /\ proc.code = 0
    /\ IF WroteLines # {}
       THEN /\ BasesHolding(ReportedPath) # {}
            /\ Kind(fs, FirstExisting) \in {"json", "json_in"}
       ELSE IsJsonText(stdout)

SpawnErrorMessages == {"spawn error", "Failed to spawn python"}
ExitMessages == {"Script failed (code N)", "Python script exited with code N"}

\* C15: the answer to a failed spawn is the spawn-error answer, never the one
\* of a non-zero exit, and the answer to a worker that ran is never the
\* spawn-error answer; the exit answer is given only after a non-zero close.
C15_SpawnErrorDistinct ==
    /\ proc.errored
          => /\ resp.error \in SpawnErrorMessages
             /\ ~resp.success
             /\ resp.status = 500
             /\ ~resp.hasCode
    /\ (pc = "done" /\ proc.closed /\ ~proc.errored)
          => resp.error \notin SpawnErrorMessages
    /\ resp.error \in ExitMessages
          => /\ ~proc.errored
             /\ proc.closed
             /\ proc.code # 0

\* the close event with the negative code has followed the error event
C15_Witness ==
    /\ pc = "done"
    /\ proc.errored
    /\ proc.closed
    /\ proc.code = SpawnFailCode
    /\ req.kind = "runway"
    /\ resp.error = "spawn error"

\* C16 as stated: spawn is called at most once, and exactly once for a
\* request that passed validation and staging.
C16_Original ==
    /\ spawned <= 1
    /\ (staged # {} /\ pc \in {"running", "responded", "done", "rejected"})
          => spawned = 1

\* C16 amended: spawn is called at most once for a request, whatever the
\* outcome; every worker event follows exactly one call; and a request that
\* passed validation and staging has called spawn exactly once when it ends,
\* unless virtual-showcase failed to build its reference URL after staging.
C16_SpawnedAtMostOnce ==
    /\ [](/\ spawned <= 1
          /\ (pc \in {"running", "responded"} \/ proc.closed \/ proc.errored)
                => spawned = 1
          /\ (/\ pc \in {"done", "rejected"}
              /\ staged # {}
              /\ ~(req.kind = "showcase" /\ ReferenceThrows(req)))
                => spawned = 1)
    /\ [][spawned' # spawned => (spawned = 0 /\ spawned' = 1 /\ pc = "staged")]_vars

\* a worker that was killed, answered with a failure and not run again
C16_Witness ==
    /\ pc = "done"
    /\ proc.closed
    /\ proc.code = 137
    /\ ~resp.success
    /\ spawned = 1

\* C17 as stated: every handler invocation ends with a response, and every
\* error is an envelope {success:false, error} with status 400 or 500; none
\* ends with an exception or a rejected promise.
C17_ErrorsEnveloped ==
    /\ pc # "rejected"
    /\ pc = "done"
          => /\ resp.status \in {200, 400, 500}
             /\ resp.status # 200 => (~resp.success /\ resp.error # "")

\* the venv interpreter of the OS family the handler runs on
FamilyVenv == IF env.platform = "win32" THEN VenvWin ELSE VenvPosix

\* the interpreter in the order stated: the venv of the OS family if it
\* exists, else the override if set, else the platform default
StatedPython ==
    IF Exists(fs, FamilyVenv) THEN JoinSlash(FamilyVenv)
    ELSE IF env.PYTHON_PATH # <<>> THEN env.PYTHON_PATH
    ELSE IF env.platform = "win32" THEN <<"py">> ELSE <<"python3">>

\* a worker was spawned for the request
WorkerSpawned == proc.cmd # <<>>

\* C18 as stated: each of the four handlers spawns the venv interpreter of
\* the current OS family if it exists, else PYTHON_PATH if set, else the
\* platform default.
C18_StatedSelectionOrder ==
    WorkerSpawned => proc.cmd = StatedPython

\* C19 as stated: when PYTHON_PATH is set every handler spawns exactly that
\* interpreter, with or without a venv interpreter on disk.
C19_OverrideSupersedes ==
    (WorkerSpawned /\ env.PYTHON_PATH # <<>>) => proc.cmd = env.PYTHON_PATH

----------------------------------------------------------------------------
(* Claims about withCacheBuster, checked under SpecBust *)

\* the URL has a query string: a "?" that no "#" precedes
HasQueryString(url) ==
    \E i \in 1..Len(url) : url[i] = "?" /\ \A j \in 1..(i - 1) : url[j] # "#"

IncludesQuestionMark(url) == \E i \in 1..Len(url) : url[i] = "?"

\* the result is the URL followed by the separator and t=<clock>
AppendedWith(out, url, sep, at) ==
    /\ ~out.isNull
    /\ out.value = url \o <<sep, "t", "=", ToString(at)>>

----------------------------------------------------------------------------
(* Claims about references, checked under SpecRef *)

\* the reference of the fixed shape for a backend path
FixedShape(p) ==
    <<"/api/assets", "?", "path", "=">>
        \o encodeURIComponent(StripLeadingSlashes(StripDrive(ReplaceBackslashes(p))))

\* what the claim states a converter returns for p
StatedReference(p) == IF IsHttpUrl(p) THEN p ELSE FixedShape(p)

\* C21: a reference made from a path is the path itself when it matches
\* ^https?://, and else /api/assets?path=<encoded relative path>, the path
\* with backslashes turned to slashes, a drive prefix removed and leading
\* slashes stripped; so for the handlers' normalizer and so for the page's
\* converter applied to the imageUrl or the savedPath of an answer.
C21_ReferenceShape ==
    /\ pc \in {"ref_server", "ref_shown"} /\ ref # <<>>
          => ref = StatedReference(req.path)
    /\ pc = "ref_shown" /\ ref = <<>> /\ req.path # <<>>
          => assetUrl = [isNull |-> FALSE, value |-> StatedReference(req.path)]
    /\ pc = "ref_shown" /\ ref # <<>>
          => assetUrl = [isNull |-> FALSE, value |-> StatedReference(ref)]

----------------------------------------------------------------------------
(* Claims about one accepted job and its worker, checked under SpecWorker *)

\* C22: every file a handler writes while staging lies inside temp/ under
\* the working directory, whatever the design id of the accepted body.
C22_StagedInsideTemp ==
    \A p \in staged : p # TempDir /\ InsideRoot(p, TempDir)

\* the chunks of a stream, one after the other
RECURSIVE Flatten(_)
Flatten(chunks) ==
    IF chunks = <<>> THEN <<>> ELSE Head(chunks) \o Flatten(Tail(chunks))

\* the close event has decided the answer of a worker that did start
Classified == pc = "done" /\ proc.closed /\ ~proc.errored

\* C24: when the handler classifies the result and builds its answer, its
\* stdout and stderr buffers are the chunks the worker wrote to each
\* stream, all of them and in the order written, with none still on its
\* way; before that, each buffer followed by what is in flight is what
\* was written.  So for exit code 0 and for every other code.
C24_BuffersComplete ==
    /\ pc \in {"running", "done"}
          => /\ stdout \o Flatten(wire.out) = Flatten(wire.sentOut)
             /\ stderr \o Flatten(wire.err) = Flatten(wire.sentErr)
    /\ Classified
          => /\ wire.out = <<>> /\ wire.err = <<>>
             /\ stdout = Flatten(wire.sentOut)
             /\ stderr = Flatten(wire.sentErr)
             /\ resp = CloseResponse(req, proc.code, Flatten(wire.sentOut),
                                     Flatten(wire.sentErr), fs)

\* a failed run whose worker wrote two different chunks to stdout and one
\* to stderr
C24_Witness ==
    /\ Classified
    /\ proc.code = 137
    /\ Len(wire.sentOut) = 2 /\ wire.sentOut[1] # wire.sentOut[2]
    /\ Len(wire.sentErr) = 1
    /\ resp.hasRaw

\* C27: a request that passed the validation is answered once its worker
\* ends and its close event (or its error event) arrives, unless spawn
\* itself threw in apply-change, where there is no worker; and, no timeout
\* being set, a handler whose worker has sent neither event has given no
\* answer.
C27_AnsweredWhenWorkerEnds ==
    /\ (pc = "validated") ~> (resp # NoResp \/ pc = "rejected")
    /\ (pc = "running") ~> (resp # NoResp)
    /\ [](pc = "running" => resp = NoResp)

\* an answer given after the worker wrote to its pipes and ended
C27_Witness ==
    /\ pc = "done"
    /\ proc.closed /\ ~proc.errored
    /\ wire.exited /\ wire.sentOut # <<>>
    /\ resp # NoResp /\ resp.success

HasFlag(a, flag) == \E i \in 1..Len(a) : a[i] = <<flag>>

StagedTexts == {JoinSlash(p) : p \in staged}

\* spawn was called with an argument list
Spawned == proc.args # <<>>

\* the original statement of C28: every handler passes the script, then
\* --design or --input with the staging file, then --out-dir output, and
\* --model-attrs / --reference exactly when a non-empty modelConfig / a
\* reference was sent
C28_Original ==
    Spawned
        => LET a == proc.args
           IN  /\ Len(a) >= 5
               /\ a[1] = ScriptOf(req.kind)
               /\ a[2] \in {<<"--design">>, <<"--input">>}
               /\ a[3] \in StagedTexts
               /\ a[4] = <<"--out-dir">> /\ a[5] = <<"output">>
               /\ HasFlag(a, "--model-attrs") <=> req.modelConfig = "full"
               /\ HasFlag(a, "--reference") <=> req.link.reference # "none"
               /\ \A p \in staged : Exists(fs, p)

\* C28: virtual-showcase and runway pass the script, --design with the
\* staging file, --out-dir output, then --model-attrs with the JSON
\* exactly when modelConfig has keys, then --reference with the URL
\* exactly when a reference was sent; flatlay-render passes the script,
\* --input with the staging file, --variant flatlay and no --out-dir;
\* apply-change passes three positional arguments, the script, the design
\* file and the change file.  The staging files are written before spawn.
C28_ArgumentsPerHandler ==
    Spawned
        => LET a == proc.args
               attrs == IF req.modelConfig = "full" THEN 2 ELSE 0
               refs == IF req.link.reference # "none" THEN 2 ELSE 0
           IN  /\ a[1] = ScriptOf(req.kind)
               /\ \A p \in staged : Exists(fs, p)
               /\ req.kind \in {"showcase", "runway"}
                     => /\ Len(a) = 5 + attrs + refs
                        /\ a[2] = <<"--design">>
                        /\ StagedTexts = {a[3]}
                        /\ a[4] = <<"--out-dir">> /\ a[5] = <<"output">>
                        /\ attrs = 2 => a[6] = <<"--model-attrs">> /\ a[7] = <<"{model}">>
                        /\ refs = 2 => /\ a[Len(a) - 1] = <<"--reference">>
                                       /\ a[Len(a)] = ReferenceUrl(req)
                        /\ HasFlag(a, "--model-attrs") <=> attrs = 2
                        /\ HasFlag(a, "--reference") <=> refs = 2
               /\ req.kind = "flatlay"
                     => /\ Len(a) = 5
                        /\ a[2] = <<"--input">>
                        /\ StagedTexts = {a[3]}
                        /\ a[4] = <<"--variant">> /\ a[5] = <<"flatlay">>
               /\ req.kind = "apply"
                     => /\ Len(a) = 3
                        /\ StagedTexts = {a[2], a[3]}
                        /\ a[2][Len(a[2])] = "json" /\ a[3][Len(a[3])] = "txt"

\* a showcase worker started with both optional flags
C28_Witness ==
    /\ pc = "running"
    /\ req.kind = "showcase"
    /\ req.modelConfig = "full" /\ req.link.reference = "absolute"
    /\ Len(proc.args) = 9
    /\ staged # {}

----------------------------------------------------------------------------
(* Claims about the single answer of a job and about the references it
   returns, checked under SpecJob *)

\* C25: a job request is answered once.  When the error event and the
\* close event both come for the same worker, the answer is the one built
\* by the first of them; the later event neither changes it nor adds a
\* second one.
C25_AnsweredOnce ==
    /\ [](pc = "done" => resp # NoResp)
    /\ [](proc.errored => resp = ErrorResponse(req))
    /\ [][resp # NoResp => resp' = resp]_vars

\* apply-change answered by the error event, the close event come after it
C25_Witness ==
    /\ pc = "done"
    /\ req.kind = "apply"
    /\ proc.errored /\ proc.closed
    /\ proc.code = SpawnFailCode
    /\ resp = JsonError(500, "Failed to spawn python")

\* the path the asset route reads out of the reference of an answer
ReturnedPath == Requested(SearchParamPath(resp.url).value)

\* a flatlay, showcase or runway answer that carries an artifact reference
ArtifactReturned ==
    /\ pc = "done"
    /\ req.kind \in RenderKinds
    /\ resp.success /\ resp.hasUrl

\* C29: every artifact reference returned with success:true passes the
\* path checks of the asset route: the path decoded from it holds no ..
\* and starts with a folder of the allow-list, so that fetching it is
\* never answered 400 or 403, whatever path the marker patterns captured.
C29_ReturnedReferenceAllowed ==
    ArtifactReturned
        => /\ SearchParamPath(resp.url).found
           /\ ~IncludesDotDot(ReturnedPath)
           /\ SplitSlash(ReturnedPath)[1] \in ALLOWED_DIRS
           /\ AssetResolve([hasPath |-> TRUE, path |-> SearchParamPath(resp.url).value],
                           fs).resp.status \notin {400, 403}

----------------------------------------------------------------------------
(* Claims about requests served at the same time, checked under SpecTwo *)

BothJobs == \A t \in TaskIds : IsJob(t)

DistinctDesignIds ==
    BothJobs /\ tasks[1].req.body.design_id # tasks[2].req.body.design_id

\* C23: two job requests that run at the same time and do not share a
\* design id write distinct staging files: no worker reads a staging file
\* that holds the design of the other request.
C23_WorkerReadsOwnDesign ==
    DistinctDesignIds
        => /\ \A t \in TaskIds : tasks[t].read \in {0, t}
           /\ tasks[1].staged \cap tasks[2].staged = {}

\* what the handler of t answers from its own request, the chunks its own
\* worker wrote and the filesystem as it was when it answered
OwnAnswer(t) ==
    IF IsJob(t)
    THEN CloseResponse(tasks[t].req, tasks[t].code, Flatten(tasks[t].sent), <<>>,
                       tasks[t].seen)
    ELSE AssetResolve(tasks[t].req.query, tasks[t].seen).resp

\* C26: a request that waits for its worker holds up itself only.  While
\* the worker of one request runs, the other request, a job or an asset
\* fetch, can be taken up and brought to its answer; and each answer is
\* made of the request's own data and the filesystem alone: the buffers
\* of a handler hold the chunks of its own worker and nothing else.
C26_WaitingHoldsUpItselfOnly ==
    /\ \A t \in TaskIds :
          /\ tasks[t].stdout = Flatten(tasks[t].sent)
          /\ tasks[t].pc = "done" => tasks[t].resp = OwnAnswer(t)
          /\ tasks[t].pc # "done" => tasks[t].resp = NoResp
    /\ \A t, u \in TaskIds :
          (t # u /\ tasks[t].pc = "running" /\ tasks[u].pc = "received")
              => ENABLED (TaskStage(u) \/ TaskAsset(u))

\* the second request, a flatlay job, answered with its artifact while
\* the first still waits for its worker, which has written a chunk
C26_Witness ==
    /\ tasks[1].pc = "running"
    /\ tasks[1].sent # <<>>
    /\ tasks[2].pc = "done"
    /\ tasks[2].req.kind = "flatlay"
    /\ tasks[2].resp.success /\ tasks[2].resp.hasUrl

\* the handler of t answered with the conventional showcase path
FallbackAnswered(t) ==
    /\ tasks[t].pc = "done"
    /\ tasks[t].req.kind = "showcase"
    /\ tasks[t].resp.success /\ tasks[t].resp.hasUrl
    /\ tasks[t].resp.url
           = normalizeForBrowser(FallbackPath(tasks[t].req.body.design_id,
                                              "_showcase", "png"))

\* C30: when the showcase handler answers with the conventional path
\* output/<design_id>_showcase.png, the file there was written by the
\* worker of that same request: a file left by another request with the
\* same design id is never returned for a worker that produced none.
C30_FallbackFileIsOwn ==
    \A t \in TaskIds :
        FallbackAnswered(t)
            => /\ tasks[t].wrote
               /\ origin[ShowcaseArtifact(tasks[t].req)] = t

====
